---- MODULE Spec2Model ----
(***************************************************************************)
(* Time-slot availability and booking admission engine of the backend     *)
(* (src/unnamed/part_009, lines 897-1789) together with the TimeSlot and   *)
(* Booking collections and their unique indexes.                           *)
(*                                                                         *)
(* Time-of-day strings are tuples of one-character strings, so that        *)
(* split(":"), parseInt, the HH:MM regular expression and padStart are     *)
(* computed character by character, as the code does: "9:00" and "09:00"   *)
(* are different strings that denote the same minute of the day.           *)
(***************************************************************************)
EXTENDS Integers, Sequences, FiniteSets, TLC

VARIABLES
    timeSlots,      \* the TimeSlot collection: a set of documents
    bookings,       \* the Booking collection: a set of documents
    nextSlotId,     \* next fresh _id of the TimeSlot collection
    nextBookingId,  \* next fresh _id of the Booking collection
    res,            \* the response to the last request served whole
    inflight,       \* the requests being served step by step (one per worker)
    sentReminders,  \* the reminder keys of the notification service
    dispatched,     \* the events whose reminder was dispatched, in order
    clock           \* the ticks of the reminder timer since the start

reminderVars == <<sentReminders, dispatched, clock>>

vars == <<timeSlots, bookings, nextSlotId, nextBookingId, res, inflight,
          sentReminders, dispatched, clock>>

-----------------------------------------------------------------------------
(* Bounds of the model *)

MaxSlotId == 3
MaxBookingId == 2
NumWorkers == 2

Workers == 1..NumWorkers

-----------------------------------------------------------------------------
(* Strings, character by character *)

Digits == {"0", "1", "2", "3", "4", "5", "6", "7", "8", "9"}

DigitVal(c) ==
    CASE c = "0" -> 0 [] c = "1" -> 1 [] c = "2" -> 2 [] c = "3" -> 3
      [] c = "4" -> 4 [] c = "5" -> 5 [] c = "6" -> 6 [] c = "7" -> 7
      [] c = "8" -> 8 [] c = "9" -> 9

DigitChar(d) == CHOOSE c \in Digits : DigitVal(c) = d

\* Not-a-Number, the result of parseInt on a string with no leading digit
NaN == 0 - 1

RECURSIVE DecVal(_)
DecVal(ds) ==
    IF ds = <<>> THEN 0
    ELSE DecVal(SubSeq(ds, 1, Len(ds) - 1)) * 10 + DigitVal(ds[Len(ds)])

\* parseInt(s) of a string without leading blanks or sign: the value of the
\* longest prefix of decimal digits, NaN if there is none
parseInt(s) ==
    LET n == CHOOSE k \in 0..Len(s) :
                 /\ \A j \in 1..k : s[j] \in Digits
                 /\ (k < Len(s) => s[k + 1] \notin Digits)
    IN  IF n = 0 THEN NaN ELSE DecVal(SubSeq(s, 1, n))

\* s.split(sep)
RECURSIVE split(_, _)
split(s, sep) ==
    IF \E i \in 1..Len(s) : s[i] = sep
    THEN LET i == CHOOSE k \in 1..Len(s) :
                      s[k] = sep /\ \A j \in 1..(k - 1) : s[j] # sep
         IN  <<SubSeq(s, 1, i - 1)>> \o split(SubSeq(s, i + 1, Len(s)), sep)
    ELSE <<s>>

\* n.toString() for n >= 0
RECURSIVE toString(_)
toString(n) ==
    IF n < 10 THEN <<DigitChar(n)>>
    ELSE toString(n \div 10) \o <<DigitChar(n % 10)>>

\* s.padStart(2, "0")
padStart2(s) == IF Len(s) < 2 THEN <<"0">> \o s ELSE s

\* `${hour.toString().padStart(2, "0")}:00`, tabulated once for the hours
\* of a day
FormatHour(hour) == padStart2(toString(hour)) \o <<":", "0", "0">>
HourLabelTable == [h \in 0..24 |-> FormatHour(h)]
HourLabel(hour) ==
    IF hour \in DOMAIN HourLabelTable THEN HourLabelTable[hour] ELSE FormatHour(hour)

\* /^([01]?[0-9]|2[0-3]):[0-5][0-9]$/.test(s)
MatchTimeRegex(s) ==
    \E k \in {1, 2} :
        /\ Len(s) = k + 3
        /\ IF k = 1
           THEN s[1] \in Digits
           ELSE \/ s[1] \in {"0", "1"} /\ s[2] \in Digits
                \/ s[1] = "2" /\ s[2] \in {"0", "1", "2", "3"}
        /\ s[k + 1] = ":"
        /\ s[k + 2] \in {"0", "1", "2", "3", "4", "5"}
        /\ s[k + 3] \in Digits

\* parseInt(t.split(":")[0]) * 60 + parseInt(t.split(":")[1])
ParseMinutes(t) ==
    CHOOSE minutes \in
        {IF hm[1] = NaN \/ hm[2] = NaN THEN NaN ELSE hm[1] * 60 + hm[2] :
            hm \in {<<parseInt(parts[1]),
                      IF Len(parts) >= 2 THEN parseInt(parts[2]) ELSE NaN>> :
                        parts \in {split(t, ":")}}} : TRUE

\* a < b and a <= b on numbers, false when either is NaN
NumLt(a, b) == a # NaN /\ b # NaN /\ a < b
NumLe(a, b) == a # NaN /\ b # NaN /\ a <= b

\* c.toLowerCase() on the letters of the AM/PM marker
toLowerCase(c) ==
    CASE c = "A" -> "a" [] c = "P" -> "p" [] c = "M" -> "m" [] OTHER -> c

IsBlank(c) == c = " "

\* whether the two-letter marker (first letter x, then "m") starts at i
MarkerAt(s, i, x) ==
    /\ i >= 1 /\ i + 1 <= Len(s)
    /\ toLowerCase(s[i]) = x
    /\ toLowerCase(s[i + 1]) = "m"

\* timeStr.toLowerCase().includes("pm") and includes("am")
includesMarker(s, x) == \E i \in 1..Len(s) : MarkerAt(s, i, x)

\* s.trim()
RECURSIVE trim(_)
trim(s) ==
    IF s # <<>> /\ IsBlank(s[1]) THEN trim(Tail(s))
    ELSE IF s # <<>> /\ IsBlank(s[Len(s)]) THEN trim(SubSeq(s, 1, Len(s) - 1))
    ELSE s

\* s.replace(/\s*(am|pm)\s*/gi, ""): every marker goes, with the blanks
\* around it
RECURSIVE removeMarkers(_)
removeMarkers(s) ==
    LET markers == {k \in 1..Len(s) : MarkerAt(s, k, "a") \/ MarkerAt(s, k, "p")}
        \* the first match: the blanks before the first marker, the marker,
        \* and the blanks after it
        matches ==
            {m \in (1..Len(s)) \X (1..Len(s)) :
                \E i \in markers :
                    /\ \A j \in markers : i <= j
                    /\ m[1] <= i /\ m[2] >= i + 1
                    /\ \A j \in m[1]..(i - 1) : IsBlank(s[j])
                    /\ (m[1] > 1 => ~IsBlank(s[m[1] - 1]))
                    /\ \A j \in (i + 2)..m[2] : IsBlank(s[j])
                    /\ (m[2] < Len(s) => ~IsBlank(s[m[2] + 1]))}
    IN  IF markers = {} THEN s
        ELSE CHOOSE out \in
                 {SubSeq(s, 1, cut[1] - 1) \o removeMarkers(cut[2]) :
                     cut \in {<<m[1], SubSeq(s, m[2] + 1, Len(s))>> :
                                 m \in matches}} : TRUE

\* parseTimeString without the exceptions for twelve o'clock: PM always adds
\* 12 hours, AM none
parseTimeStringNoTwelve(timeStr) ==
    LET isPM == includesMarker(timeStr, "p")
        cleanTimes == {trim(replaced) : replaced \in {removeMarkers(timeStr)}}
        splits == {split(cleanTime, ":") : cleanTime \in cleanTimes}
        parsed == {<<parseInt(parts[1]),
                     IF Len(parts) >= 2 THEN parseInt(parts[2]) ELSE NaN>> :
                       parts \in splits}
    IN  CHOOSE time \in
            {[hour |-> IF isPM
                       THEN (IF hm[1] = NaN THEN NaN ELSE hm[1] + 12)
                       ELSE hm[1],
              minute |-> IF hm[2] = NaN THEN 0 ELSE hm[2]] :
                hm \in parsed} : TRUE

\* parseTimeString: "14:00" and "2:00 PM" to {hour, minute}
parseTimeString(timeStr) ==
    LET isPM == includesMarker(timeStr, "p")
        isAM == includesMarker(timeStr, "a")
        \* cleanTime, then [hourStr, minStr], then their parseInt
        cleanTimes == {trim(replaced) : replaced \in {removeMarkers(timeStr)}}
        splits == {split(cleanTime, ":") : cleanTime \in cleanTimes}
        parsed == {<<parseInt(parts[1]),
                     IF Len(parts) >= 2 THEN parseInt(parts[2]) ELSE NaN>> :
                       parts \in splits}
    IN  CHOOSE time \in
            {[hour |-> IF isPM /\ hm[1] # 12
                       THEN (IF hm[1] = NaN THEN NaN ELSE hm[1] + 12)
                       ELSE IF isAM /\ hm[1] = 12 THEN 0
                       ELSE hm[1],
              minute |-> IF hm[2] = NaN THEN 0 ELSE hm[2]] :
                hm \in parsed} : TRUE

-----------------------------------------------------------------------------
(* The time-of-day strings that requests carry *)

Empty == <<>>    \* "" or a missing field: falsy

t9_00  == <<"9", ":", "0", "0">>
t09_00 == <<"0", "9", ":", "0", "0">>
t09_30 == <<"0", "9", ":", "3", "0">>
t10_00 == <<"1", "0", ":", "0", "0">>
t11_00 == <<"1", "1", ":", "0", "0">>
t24_00 == <<"2", "4", ":", "0", "0">>   \* rejected by the regex

\* the times of custom-slot requests; "09:00" reaches the store through
\* bulk generation
SlotTimes == {t9_00, t09_30, t10_00}

\* ParseMinutes, tabulated once for the strings above
KnownTimes == {t9_00, t09_00, t09_30, t10_00, t11_00, t24_00}
MinutesTable == [t \in KnownTimes |-> ParseMinutes(t)]
toMinutes(t) == IF t \in KnownTimes THEN MinutesTable[t] ELSE ParseMinutes(t)

\* MatchTimeRegex, tabulated likewise
RegexTable == [t \in KnownTimes |-> MatchTimeRegex(t)]
timeRegex(t) == IF t \in KnownTimes THEN RegexTable[t] ELSE MatchTimeRegex(t)

-----------------------------------------------------------------------------
(* Dates, the venue and the users *)

Monday  == "2026-01-05"
Tuesday == "2026-01-06"
DateSeq == <<Monday, Tuesday>>
Dates == {DateSeq[i] : i \in 1..Len(DateSeq)}
NoDate == ""

\* dayNames[new Date(dateStr).getDay()]
dayName(dateStr) == IF dateStr = Monday THEN "monday" ELSE "tuesday"

\* the one venue of the model: one space, open on Mondays from 9:00 AM to 11:00
venueSubVenues == {"s1"}
venueOperatingHours ==
    [d \in {"monday"} |->
        [open |-> <<"9", ":", "0", "0", " ", "A", "M">>, close |-> t11_00]]

Venues == {"v1"}
VenueIds == {"v1", "v0"}
SpaceIds == {"s1", "s0"}

\* the Users collection; "u9" holds a valid token but its record was deleted
dbUsers == [u \in {"u1", "u2", "a1"} |-> [isAdmin |-> (u = "a1")]]
NoUser == ""
Principals == {NoUser, "u1", "u2", "a1", "u9"}

-----------------------------------------------------------------------------
Init ==
    /\ timeSlots = {}
    /\ bookings = {}
    /\ nextSlotId = 1
    /\ nextBookingId = 1
    /\ res = [op |-> "none", status |-> 0, created |-> 0, skipped |-> 0]
    /\ inflight = [w \in Workers |-> [pc |-> "idle"]]
    /\ sentReminders = {}
    /\ dispatched = <<>>
    /\ clock = 0
-----------------------------------------------------------------------------
(* Authentication *)

\* requireAdmin without the isAdmin test: every user on record passes
requireAdminAnyUser(user) ==
    IF user = NoUser THEN 401
    ELSE IF user \notin DOMAIN dbUsers THEN 401
    ELSE 0

\* the requireAdmin middleware: 0 stands for next()
requireAdmin(user) ==
    IF user = NoUser THEN 401
    ELSE IF user \notin DOMAIN dbUsers THEN 401
    ELSE IF ~dbUsers[user].isAdmin THEN 403
    ELSE 0

-----------------------------------------------------------------------------
(* The TimeSlot collection *)

SlotKey(d) == <<d.venueId, d.spaceId, d.date, d.startTime>>

\* TimeSlotDuplicate for an index that covers the custom slots only
TimeSlotDuplicateCustom(store, d) ==
    \E s \in store : s._id # d._id /\ s.isCustom /\ SlotKey(s) = SlotKey(d)

\* the unique index on (venueId, spaceId, date, startTime): whether writing
\* document d raises the duplicate-key error 11000
TimeSlotDuplicate(store, d) ==
    \E s \in store : s._id # d._id /\ SlotKey(s) = SlotKey(d)

NewTimeSlot(id, venueId, spaceId, date, startTime, endTime, price, isCustom) ==
    [_id |-> id, venueId |-> venueId, spaceId |-> spaceId, date |-> date,
     startTime |-> startTime, endTime |-> endTime, price |-> price,
     isCustom |-> isCustom, isActive |-> TRUE]

\* checkSlotOverlap comparing start times only, as the unique index does
checkSlotOverlapSameStart(store, venueId, spaceId, date, startTime, endTime, excludeSlotId) ==
    \E slot \in store :
        /\ slot.venueId = venueId /\ slot.spaceId = spaceId /\ slot.date = date
        /\ slot.isActive
        /\ (excludeSlotId # 0 => slot._id # excludeSlotId)
        /\ toMinutes(slot.startTime) = toMinutes(startTime)

\* checkSlotOverlap on closed intervals: a slot that only touches another's
\* endpoint counts as overlapping
checkSlotOverlapClosed(store, venueId, spaceId, date, startTime, endTime, excludeSlotId) ==
    \E slot \in {s \in store : /\ s.venueId = venueId
                                /\ s.spaceId = spaceId
                                /\ s.date = date
                                /\ s.isActive
                                /\ (excludeSlotId # 0 => s._id # excludeSlotId)} :
        /\ NumLe(toMinutes(startTime), toMinutes(slot.endTime))
        /\ NumLe(toMinutes(slot.startTime), toMinutes(endTime))

\* checkSlotOverlap: excludeSlotId is 0 when not given
checkSlotOverlap(store, venueId, spaceId, date, startTime, endTime, excludeSlotId) ==
    LET startMinutes == toMinutes(startTime)
        endMinutes == toMinutes(endTime)
        existingSlots ==
            {s \in store : /\ s.venueId = venueId
                           /\ s.spaceId = spaceId
                           /\ s.date = date
                           /\ s.isActive
                           /\ (excludeSlotId # 0 => s._id # excludeSlotId)}
    IN  \E slot \in existingSlots :
            /\ NumLt(startMinutes, toMinutes(slot.endTime))
            /\ NumLt(toMinutes(slot.startTime), endMinutes)

Undefined == 0 - 2      \* a price the request body does not carry
BadPrice == 0 - 3       \* a price that does not cast to Number, such as "abc"

\* the schema's "price: {type: Number}": whether validation accepts the value
CastsToNumber(price) == price # BadPrice
DefaultPrice == 150

\* price || 150
PriceOrDefault(price) ==
    IF price = Undefined \/ price = 0 THEN DefaultPrice ELSE price

\* PostSlotCheck without the comparison of the end with the start
PostSlotCheckAnyOrder(store, r) ==
    IF requireAdmin(r.user) # 0 THEN requireAdmin(r.user)
    ELSE IF r.date = NoDate \/ r.startTime = Empty \/ r.endTime = Empty
    THEN 400
    ELSE IF ~timeRegex(r.startTime) \/ ~timeRegex(r.endTime) THEN 400
    ELSE IF r.venueId \notin Venues THEN 404
    ELSE IF r.spaceId \notin venueSubVenues THEN 404
    ELSE IF checkSlotOverlap(store, r.venueId, r.spaceId, r.date,
                             r.startTime, r.endTime, 0)
    THEN 409
    ELSE 0

\* POST .../slots up to the overlap check: the status answered, 0 to go on
PostSlotCheck(store, r) ==
    IF requireAdmin(r.user) # 0 THEN requireAdmin(r.user)
    ELSE IF r.date = NoDate \/ r.startTime = Empty \/ r.endTime = Empty
    THEN 400
    ELSE IF ~timeRegex(r.startTime) \/ ~timeRegex(r.endTime) THEN 400
    ELSE IF NumLe(toMinutes(r.endTime), toMinutes(r.startTime)) THEN 400
    ELSE IF r.venueId \notin Venues THEN 404
    ELSE IF r.spaceId \notin venueSubVenues THEN 404
    ELSE IF checkSlotOverlap(store, r.venueId, r.spaceId, r.date,
                             r.startTime, r.endTime, 0)
    THEN 409
    ELSE 0

\* TimeSlot.create and the answer: 201, 409 on the duplicate-key error, or
\* 500 on any other error
PostSlotWrite(store, id, r) ==
    LET d == NewTimeSlot(id, r.venueId, r.spaceId, r.date, r.startTime,
                         r.endTime, PriceOrDefault(r.price), TRUE)
    IN  IF ~CastsToNumber(d.price)
        THEN [status |-> 500, store |-> store, docs |-> {}]
        ELSE IF TimeSlotDuplicate(store, d)
        THEN [status |-> 409, store |-> store, docs |-> {}]
        ELSE [status |-> 201, store |-> store \cup {d}, docs |-> {d}]

\* the whole POST .../slots handler
PostSlot(store, id, r) ==
    LET st == PostSlotCheck(store, r)
    IN  IF st # 0 THEN [status |-> st, store |-> store, docs |-> {}]
        ELSE PostSlotWrite(store, id, r)

CreateCustomSlot(requests) ==
    \E r \in requests :
        LET out == PostSlot(timeSlots, nextSlotId, r)
        IN  /\ out.status = 201 => nextSlotId <= MaxSlotId
            /\ timeSlots' = out.store
            /\ nextSlotId' = IF out.status = 201 THEN nextSlotId + 1 ELSE nextSlotId
            /\ res' = [op |-> "createCustomSlot", status |-> out.status,
                       created |-> 0, skipped |-> 0]
            /\ UNCHANGED <<bookings, nextBookingId, inflight, reminderVars>>

\* ActiveBookingAt with the time of day in place of the startTime string: a
\* booking whose start is the same minute of the day is found
ActiveBookingAtMinute(bks, venueId, spaceId, date, startTime) ==
    \E b \in bks : /\ b.venueId = venueId
                   /\ b.spaceId = spaceId
                   /\ b.date = date
                   /\ toMinutes(b.startTime) = toMinutes(startTime)
                   /\ b.status # "cancelled"

\* Booking.findOne({venueId, spaceId, date, startTime, status: {$ne: "cancelled"}})
\* finds a document
ActiveBookingAt(bks, venueId, spaceId, date, startTime) ==
    \E b \in bks : /\ b.venueId = venueId
                   /\ b.spaceId = spaceId
                   /\ b.date = date
                   /\ b.startTime = startTime
                   /\ b.status # "cancelled"

\* TimeSlot.findOne({_id: slotId, venueId, spaceId}): the documents found
FindSlot(store, r) ==
    {s \in store : s._id = r.slotId /\ s.venueId = r.venueId /\ s.spaceId = r.spaceId}

\* the date and times of PUT .../slots/:slotId: the body's, else the slot's
PutSlotNew(existingSlot, r) ==
    [date |-> IF r.date # NoDate THEN r.date ELSE existingSlot.date,
     startTime |-> IF r.startTime # Empty THEN r.startTime ELSE existingSlot.startTime,
     endTime |-> IF r.endTime # Empty THEN r.endTime ELSE existingSlot.endTime]

\* the format and order checks of PUT: the status answered, 0 to go on
PutSlotValidate(existingSlot, r) ==
    LET new == PutSlotNew(existingSlot, r)
    IN  IF r.startTime # Empty /\ ~timeRegex(r.startTime) THEN 400
        ELSE IF r.endTime # Empty /\ ~timeRegex(r.endTime) THEN 400
        ELSE IF NumLe(toMinutes(new.endTime), toMinutes(new.startTime)) THEN 400
        ELSE 0

\* the overlap check of PUT, excluding the slot itself
PutSlotOverlap(store, existingSlot, r) ==
    LET new == PutSlotNew(existingSlot, r)
    IN  checkSlotOverlap(store, r.venueId, r.spaceId, new.date, new.startTime,
                         new.endTime, r.slotId)

\* PutSlotBooked without the Booking.findOne test: a booked slot may move
PutSlotBookedNever(bks, existingSlot, r) == FALSE

\* the active-booking check of PUT: a booked slot whose date or times change
PutSlotBooked(bks, existingSlot, r) ==
    LET new == PutSlotNew(existingSlot, r)
    IN  /\ ActiveBookingAt(bks, r.venueId, r.spaceId, existingSlot.date,
                           existingSlot.startTime)
        /\ \/ new.startTime # existingSlot.startTime
           \/ new.endTime # existingSlot.endTime
           \/ new.date # existingSlot.date

\* existingSlot.save(): the modified paths are written to the stored document;
\* a price that fails validation, a missing document or a duplicate key
\* throws, which the handler answers 500
PutSlotSave(store, existingSlot, r) ==
    LET new == PutSlotNew(existingSlot, r)
        edited == [existingSlot EXCEPT
                      !.date = new.date, !.startTime = new.startTime,
                      !.endTime = new.endTime,
                      !.price = IF r.price # Undefined THEN r.price ELSE @]
        stored == {s \in store : s._id = existingSlot._id}
    IN  IF edited = existingSlot
        THEN [status |-> 200, store |-> store, docs |-> {edited}]
        ELSE IF ~CastsToNumber(edited.price) \/ stored = {}
        THEN [status |-> 500, store |-> store, docs |-> {}]
        ELSE LET cur == CHOOSE s \in stored : TRUE
                 upd == [cur EXCEPT
                     !.date = IF edited.date # existingSlot.date
                              THEN edited.date ELSE @,
                     !.startTime = IF edited.startTime # existingSlot.startTime
                                   THEN edited.startTime ELSE @,
                     !.endTime = IF edited.endTime # existingSlot.endTime
                                 THEN edited.endTime ELSE @,
                     !.price = IF edited.price # existingSlot.price
                               THEN edited.price ELSE @]
             IN  IF TimeSlotDuplicate(store, upd)
                 THEN [status |-> 500, store |-> store, docs |-> {}]
                 ELSE [status |-> 200, store |-> (store \ {cur}) \cup {upd},
                       docs |-> {edited}]

\* the whole PUT .../slots/:slotId handler
PutSlot(store, bks, r) ==
    LET found == FindSlot(store, r)
        existingSlot == CHOOSE s \in found : TRUE
        fail(st) == [status |-> st, store |-> store, docs |-> {}]
    IN  IF requireAdmin(r.user) # 0 THEN fail(requireAdmin(r.user))
        ELSE IF found = {} THEN fail(404)
        ELSE IF PutSlotValidate(existingSlot, r) # 0
        THEN fail(PutSlotValidate(existingSlot, r))
        ELSE IF PutSlotOverlap(store, existingSlot, r) THEN fail(409)
        ELSE IF PutSlotBooked(bks, existingSlot, r) THEN fail(409)
        ELSE PutSlotSave(store, existingSlot, r)

UpdateCustomSlot(requests) ==
    \E r \in requests :
        LET out == PutSlot(timeSlots, bookings, r)
        IN  /\ timeSlots' = out.store
            /\ res' = [op |-> "updateCustomSlot", status |-> out.status,
                       created |-> 0, skipped |-> 0]
            /\ UNCHANGED <<bookings, nextSlotId, nextBookingId, inflight, reminderVars>>

\* DeleteSlot without the Booking.findOne test: a booked slot is deleted too
DeleteSlotUnchecked(store, bks, r) ==
    LET found == FindSlot(store, r)
        existingSlot == CHOOSE s \in found : TRUE
        fail(st) == [status |-> st, store |-> store, docs |-> {}]
    IN  IF requireAdmin(r.user) # 0 THEN fail(requireAdmin(r.user))
        ELSE IF found = {} THEN fail(404)
        ELSE [status |-> 200, store |-> {s \in store : s._id # r.slotId},
              docs |-> {existingSlot}]

\* the whole DELETE .../slots/:slotId handler
DeleteSlot(store, bks, r) ==
    LET found == FindSlot(store, r)
        existingSlot == CHOOSE s \in found : TRUE
        fail(st) == [status |-> st, store |-> store, docs |-> {}]
    IN  IF requireAdmin(r.user) # 0 THEN fail(requireAdmin(r.user))
        ELSE IF found = {} THEN fail(404)
        ELSE IF ActiveBookingAt(bks, r.venueId, r.spaceId, existingSlot.date,
                                existingSlot.startTime)
        THEN fail(409)
        ELSE [status |-> 200, store |-> {s \in store : s._id # r.slotId},
              docs |-> {existingSlot}]

DeleteCustomSlot(requests) ==
    \E r \in requests :
        LET out == DeleteSlot(timeSlots, bookings, r)
        IN  /\ timeSlots' = out.store
            /\ res' = [op |-> "deleteCustomSlot", status |-> out.status,
                       created |-> 0, skipped |-> 0]
            /\ UNCHANGED <<bookings, nextSlotId, nextBookingId, inflight, reminderVars>>

\* the dates d.toISOString().split("T")[0] of the loop from start to end
DateIndex(d) == CHOOSE i \in 1..Len(DateSeq) : DateSeq[i] = d
Today == DateSeq[1]

\* the range of POST .../generate-slots: without dates, the 14 days from
\* today, which cover every date of the model
DateRange(startDate, endDate) ==
    LET start == IF startDate # NoDate THEN DateIndex(startDate) ELSE DateIndex(Today)
        end == IF endDate # NoDate THEN DateIndex(endDate) ELSE Len(DateSeq)
    IN  [i \in 1..(IF end >= start THEN end - start + 1 ELSE 0) |->
            DateSeq[start + i - 1]]

\* HoursOfDay opening at the hour of the opening time, its minutes dropped
HoursOfDayFloor(hours) ==
    LET openHour == parseTimeString(hours.open).hour
        closeHour == parseTimeString(hours.close).hour
    IN  IF openHour = NaN \/ closeHour = NaN THEN <<>>
        ELSE [i \in 1..(IF closeHour > openHour THEN closeHour - openHour ELSE 0) |->
                 openHour + i - 1]

\* the hours of the loop "for (hour = effectiveOpenHour; hour < closeHour; hour++)"
HoursOfDay(hours) ==
    LET openTime == parseTimeString(hours.open)
        effectiveOpenHour ==
            IF openTime.hour = NaN THEN NaN
            ELSE IF openTime.minute > 0 THEN openTime.hour + 1 ELSE openTime.hour
        closeHour == parseTimeString(hours.close).hour
    IN  IF effectiveOpenHour = NaN \/ closeHour = NaN THEN <<>>
        ELSE [i \in 1..(IF closeHour > effectiveOpenHour
                        THEN closeHour - effectiveOpenHour ELSE 0) |->
                 effectiveOpenHour + i - 1]

\* HoursOfDay of each day the venue is open on, computed once
HoursTable == [day \in DOMAIN venueOperatingHours |->
                  HoursOfDay(venueOperatingHours[day])]

\* HoursOfDay, looked up for the venue's own operating hours
HoursOf(hours) ==
    IF \E day \in DOMAIN venueOperatingHours : venueOperatingHours[day] = hours
    THEN HoursTable[CHOOSE day \in DOMAIN venueOperatingHours :
                        venueOperatingHours[day] = hours]
    ELSE HoursOfDay(hours)

\* the (date, hour) pairs the two nested loops visit, in order; a day the
\* venue is closed on contributes none
RECURSIVE Candidates(_)
Candidates(dates) ==
    IF dates = <<>> THEN <<>>
    ELSE LET dateStr == Head(dates)
             day == dayName(dateStr)
             hrs == IF day \in DOMAIN venueOperatingHours
                    THEN HoursTable[day] ELSE <<>>
         IN  [i \in 1..Len(hrs) |-> [date |-> dateStr, hour |-> hrs[i]]]
             \o Candidates(Tail(dates))

\* the body of the inner loop, for each candidate in turn: TimeSlot.create;
\* on the duplicate-key error the slot is counted as skipped, and any other
\* error is caught and dropped
RECURSIVE GenerateInto(_, _, _)
GenerateInto(acc, cands, r) ==
    IF cands = <<>> THEN acc
    ELSE LET c == Head(cands)
             d == NewTimeSlot(acc.nextId, r.venueId, r.spaceId, c.date,
                              HourLabel(c.hour), HourLabel(c.hour + 1),
                              PriceOrDefault(r.price), FALSE)
         IN  IF ~CastsToNumber(d.price)
             THEN GenerateInto(acc, Tail(cands), r)
             ELSE IF TimeSlotDuplicate(acc.store, d)
             THEN GenerateInto([acc EXCEPT !.skipped = @ + 1], Tail(cands), r)
             ELSE GenerateInto([acc EXCEPT !.store = @ \cup {d},
                                           !.nextId = @ + 1,
                                           !.docs = @ \cup {d}],
                               Tail(cands), r)

\* the whole POST .../generate-slots handler
GenerateSlots(store, id, r) ==
    LET fail(st) == [status |-> st, store |-> store, nextId |-> id,
                     docs |-> {}, skipped |-> 0]
    IN  IF requireAdmin(r.user) # 0 THEN fail(requireAdmin(r.user))
        ELSE IF r.venueId \notin Venues THEN fail(404)
        ELSE IF r.spaceId \notin venueSubVenues THEN fail(404)
        ELSE CHOOSE out \in
                 {GenerateInto([status |-> 201, store |-> store, nextId |-> id,
                                docs |-> {}, skipped |-> 0], cands, r) :
                     cands \in {Candidates(DateRange(r.startDate, r.endDate))}} :
                 TRUE

BulkGenerateSlots(requests) ==
    \E r \in requests :
        \E out \in {GenerateSlots(timeSlots, nextSlotId, r)} :
            /\ out.nextId <= MaxSlotId + 1
            /\ timeSlots' = out.store
            /\ nextSlotId' = out.nextId
            /\ res' = [op |-> "bulkGenerateSlots", status |-> out.status,
                       created |-> Cardinality(out.docs),
                       skipped |-> out.skipped]
            /\ UNCHANGED <<bookings, nextBookingId, inflight, reminderVars>>

\* requests of the administrator on the venue's space
SlotPosts ==
    [user : {"a1"}, venueId : {"v1"}, spaceId : {"s1"}, date : Dates,
     startTime : SlotTimes, endTime : SlotTimes, price : {Undefined}]

SlotIds == 1..MaxSlotId

\* changes of date and times: to the other day, to an earlier start, to a
\* later end, and combinations
SlotPuts ==
    [user : {"a1"}, venueId : {"v1"}, spaceId : {"s1"}, slotId : SlotIds,
     date : {NoDate, Tuesday}, startTime : {Empty, t9_00, t09_30},
     endTime : {Empty, t09_30, t10_00}, price : {Undefined}]

SlotDeletes ==
    [user : {"a1"}, venueId : {"v1"}, spaceId : {"s1"}, slotId : SlotIds]

SlotGenerates ==
    [user : {"a1"}, venueId : {"v1"}, spaceId : {"s1"},
     startDate : Dates \cup {NoDate}, endDate : Dates \cup {NoDate},
     price : {Undefined}]

NextSlots ==
    \/ CreateCustomSlot(SlotPosts)
    \/ UpdateCustomSlot(SlotPuts)
    \/ DeleteCustomSlot(SlotDeletes)
    \/ BulkGenerateSlots(SlotGenerates)

SpecSlots == Init /\ [][NextSlots]_vars

\* the custom-slot requests alone, one after another
NextCustom ==
    \/ CreateCustomSlot(SlotPosts)
    \/ UpdateCustomSlot(SlotPuts)
    \/ DeleteCustomSlot(SlotDeletes)

SpecCustom == Init /\ [][NextCustom]_vars

-----------------------------------------------------------------------------
(* The Booking collection *)

BookingKey(b) == <<b.venueId, b.spaceId, b.date, b.startTime>>

\* the Booking collection without its unique index: no insert is refused
BookingDuplicateNoIndex(bks, b) == FALSE

\* the unique index on (venueId, spaceId, date, startTime), which covers the
\* documents of every status: whether inserting b raises error 11000
BookingDuplicate(bks, b) ==
    \E x \in bks : x._id # b._id /\ BookingKey(x) = BookingKey(b)

NewBooking(id, r) ==
    [_id |-> id, venueId |-> r.venueId, spaceId |-> r.spaceId, date |-> r.date,
     startTime |-> r.startTime, endTime |-> r.endTime, userId |-> r.user,
     status |-> "pending"]

\* POST .../book up to the existing-booking check: the status answered, 0 to
\* go on
PostBookCheck(bks, r) ==
    IF r.user = NoUser THEN 401
    ELSE IF r.date = NoDate \/ r.startTime = Empty \/ r.endTime = Empty
            \/ r.eventName = ""
    THEN 400
    ELSE IF r.venueId \notin Venues THEN 404
    ELSE IF r.spaceId \notin venueSubVenues THEN 404
    ELSE IF r.user \notin DOMAIN dbUsers THEN 401
    ELSE IF ActiveBookingAt(bks, r.venueId, r.spaceId, r.date, r.startTime)
    THEN 409
    ELSE 0

\* PostBookWrite without the mapping of error code 11000: the duplicate-key
\* error falls through to the generic 500
PostBookWriteUnmapped(bks, id, r) ==
    LET b == NewBooking(id, r)
    IN  IF BookingDuplicate(bks, b)
        THEN [status |-> 500, store |-> bks]
        ELSE [status |-> 201, store |-> bks \cup {b}]

\* Booking.create and the answer: 201, or 409 on the duplicate-key error
PostBookWrite(bks, id, r) ==
    LET b == NewBooking(id, r)
    IN  IF BookingDuplicate(bks, b)
        THEN [status |-> 409, store |-> bks]
        ELSE [status |-> 201, store |-> bks \cup {b}]

\* the whole POST .../book handler
PostBook(bks, id, r) ==
    LET st == PostBookCheck(bks, r)
    IN  IF st # 0 THEN [status |-> st, store |-> bks]
        ELSE PostBookWrite(bks, id, r)

CreateBooking(requests) ==
    \E r \in requests :
        LET out == PostBook(bookings, nextBookingId, r)
        IN  /\ out.status = 201 => nextBookingId <= MaxBookingId
            /\ bookings' = out.store
            /\ nextBookingId' =
                   IF out.status = 201 THEN nextBookingId + 1 ELSE nextBookingId
            /\ res' = [op |-> "createBooking", status |-> out.status,
                       created |-> 0, skipped |-> 0]
            /\ UNCHANGED <<timeSlots, nextSlotId, inflight, reminderVars>>

\* CancelCheck without the ownership test: any principal may cancel
CancelCheckAnyone(bks, r) ==
    IF r.user = NoUser THEN 401
    ELSE IF {b \in bks : b._id = r.id} = {} THEN 404
    ELSE 0

\* PATCH /api/bookings/:id/cancel up to the ownership check: the status
\* answered, 0 to go on
CancelCheck(bks, r) ==
    LET found == {b \in bks : b._id = r.id}
        booking == CHOOSE b \in found : TRUE
    IN  IF r.user = NoUser THEN 401
        ELSE IF found = {} THEN 404
        ELSE IF booking.userId # r.user
                /\ ~(r.user \in DOMAIN dbUsers /\ dbUsers[r.user].isAdmin)
        THEN 403
        ELSE 0

\* CancelWrite as a soft cancellation: the record stays, with status cancelled
CancelWriteSoft(bks, r) ==
    [status |-> 200,
     store |-> {IF b._id = r.id THEN [b EXCEPT !.status = "cancelled"] ELSE b :
                   b \in bks}]

\* Booking.findByIdAndDelete
CancelWrite(bks, r) == [status |-> 200, store |-> {b \in bks : b._id # r.id}]

\* the whole PATCH /api/bookings/:id/cancel handler
PatchCancel(bks, r) ==
    LET st == CancelCheck(bks, r)
    IN  IF st # 0 THEN [status |-> st, store |-> bks] ELSE CancelWrite(bks, r)

CancelBooking(requests) ==
    \E r \in requests :
        LET out == PatchCancel(bookings, r)
        IN  /\ bookings' = out.store
            /\ res' = [op |-> "cancelBooking", status |-> out.status,
                       created |-> 0, skipped |-> 0]
            /\ UNCHANGED <<timeSlots, nextSlotId, nextBookingId, inflight, reminderVars>>

Statuses == {"pending", "confirmed", "cancelled"}

\* the whole PATCH /api/bookings/:id/status handler (administrators only)
PatchStatus(bks, r) ==
    LET found == {b \in bks : b._id = r.id}
        booking == CHOOSE b \in found : TRUE
    IN  IF requireAdmin(r.user) # 0
        THEN [status |-> requireAdmin(r.user), store |-> bks]
        ELSE IF r.status \notin Statuses THEN [status |-> 400, store |-> bks]
        ELSE IF found = {} THEN [status |-> 404, store |-> bks]
        ELSE [status |-> 200,
              store |-> (bks \ {booking})
                        \cup {[booking EXCEPT !.status = r.status]}]

UpdateBookingStatus(requests) ==
    \E r \in requests :
        LET out == PatchStatus(bookings, r)
        IN  /\ bookings' = out.store
            /\ res' = [op |-> "updateBookingStatus", status |-> out.status,
                       created |-> 0, skipped |-> 0]
            /\ UNCHANGED <<timeSlots, nextSlotId, nextBookingId, inflight, reminderVars>>

BookingIds == 1..MaxBookingId

\* bookings of two users on the venue's space: three start strings on Monday
\* (two of them the same time of day), one on Tuesday
BookPosts ==
    [user : {"u1", "u2"}, venueId : {"v1"}, spaceId : {"s1"}, date : {Monday},
     startTime : {t9_00, t09_00, t10_00}, endTime : {t11_00}, eventName : {"game"}]
    \cup
    [user : {"u1", "u2"}, venueId : {"v1"}, spaceId : {"s1"}, date : {Tuesday},
     startTime : {t9_00}, endTime : {t11_00}, eventName : {"game"}]

\* requests without a principal, of a deleted user, on an unknown venue or
\* space, and without an event name
BookPostsRefused ==
    [user : {NoUser, "u9"}, venueId : {"v1"}, spaceId : {"s1"}, date : {Monday},
     startTime : {t9_00}, endTime : {t11_00}, eventName : {"game"}]
    \cup
    [user : {"u1"}, venueId : {"v0"}, spaceId : {"s1"}, date : {Monday},
     startTime : {t9_00}, endTime : {t11_00}, eventName : {"game"}]
    \cup
    [user : {"u1"}, venueId : {"v1"}, spaceId : {"s0"}, date : {Monday},
     startTime : {t9_00}, endTime : {t11_00}, eventName : {"game", ""}]

Cancels == [user : Principals, id : BookingIds]

StatusPatches ==
    [user : {"a1", "u1"}, id : BookingIds, status : Statuses \cup {"archived"}]

NextBook ==
    \/ CreateBooking(BookPosts \cup BookPostsRefused)
    \/ CancelBooking(Cancels)
    \/ UpdateBookingStatus(StatusPatches)

SpecBook == Init /\ [][NextBook]_vars

-----------------------------------------------------------------------------
(* Slots and bookings together, one request after another *)

\* two custom slots on Monday that overlap each other and the generated
\* hour 09:00-10:00
MondayPosts ==
    {r \in SlotPosts : r.date = Monday /\ r.startTime \in {t9_00, t09_30}
                       /\ r.endTime = t10_00}

\* a later start, and the price-only edit
MondayPuts ==
    [user : {"a1"}, venueId : {"v1"}, spaceId : {"s1"}, slotId : SlotIds,
     date : {NoDate}, startTime : {t09_30}, endTime : {Empty},
     price : {Undefined}]
    \cup
    [user : {"a1"}, venueId : {"v1"}, spaceId : {"s1"}, slotId : SlotIds,
     date : {NoDate}, startTime : {Empty}, endTime : {Empty}, price : {200}]

MondayGenerates == {r \in SlotGenerates : r.startDate = Monday /\ r.endDate = Monday}

\* bookings of one user at nine o'clock on Monday, under both spellings
MondayBooks ==
    {r \in BookPosts : /\ r.user = "u1" /\ r.date = Monday
                       /\ r.startTime \in {t9_00, t09_00}}

OwnerOrAdminCancels == {r \in Cancels : r.user \in {"u1", "u2", "a1"}}

AdminStatusPatches == {r \in StatusPatches : r.user = "a1" /\ r.status \in Statuses}

Next ==
    \/ CreateCustomSlot(MondayPosts)
    \/ UpdateCustomSlot(MondayPuts)
    \/ DeleteCustomSlot(SlotDeletes)
    \/ BulkGenerateSlots(MondayGenerates)
    \/ CreateBooking(MondayBooks)
    \/ CancelBooking(OwnerOrAdminCancels)
    \/ UpdateBookingStatus(AdminStatusPatches)

Spec == Init /\ [][Next]_vars

-----------------------------------------------------------------------------
(* The slot routes requested by every principal: nobody, users, the
   administrator, and the holder of a token whose user record is gone *)

SentBy(requests) == {[r EXCEPT !.user = p] : r \in requests, p \in Principals}

NextGate ==
    \/ CreateCustomSlot(SentBy(MondayPosts))
    \/ UpdateCustomSlot(SentBy(MondayPuts))
    \/ DeleteCustomSlot(SentBy(SlotDeletes))
    \/ BulkGenerateSlots(SentBy(MondayGenerates))
    \/ CreateBooking(MondayBooks)

SpecGate == Init /\ [][NextGate]_vars

-----------------------------------------------------------------------------
(* Requests served concurrently: each await of a handler that reads or writes
   the TimeSlot or Booking collection is a step of its own, and the steps of
   different requests interleave.  The Users and Venue collections do not
   change, so their reads join the step that follows them. *)

Idle == [pc |-> "idle"]
Doing(pc, op, r) == [pc |-> pc, op |-> op, r |-> r]
Done(op, r, status, at) ==
    [pc |-> "done", op |-> op, r |-> r, status |-> status, at |-> at]

\* requests that have passed their check and are about to insert
Inserting(pc) == Cardinality({w \in Workers : inflight[w].pc = pc})

\* POST .../book: authentication, validation and Booking.findOne
BookCheckStep(requests) ==
    \E w \in Workers, r \in requests :
        /\ inflight[w].pc = "idle"
        /\ nextBookingId + Inserting("bookWrite") <= MaxBookingId
        /\ LET st == PostBookCheck(bookings, r)
           IN  inflight' = [inflight EXCEPT ![w] =
                   IF st # 0 THEN Done("createBooking", r, st, "check")
                   ELSE Doing("bookWrite", "createBooking", r)]
        /\ UNCHANGED <<timeSlots, bookings, nextSlotId, nextBookingId, res, reminderVars>>

\* POST .../book: Booking.create and the answer
BookWriteStep ==
    \E w \in Workers :
        /\ inflight[w].pc = "bookWrite"
        /\ LET out == PostBookWrite(bookings, nextBookingId, inflight[w].r)
           IN  /\ bookings' = out.store
               /\ nextBookingId' =
                      IF out.status = 201 THEN nextBookingId + 1 ELSE nextBookingId
               /\ inflight' = [inflight EXCEPT ![w] =
                      Done("createBooking", inflight[w].r, out.status, "write")]
        /\ UNCHANGED <<timeSlots, nextSlotId, res, reminderVars>>

\* PATCH /api/bookings/:id/cancel: Booking.findById and the ownership check
CancelCheckStep(requests) ==
    \E w \in Workers, r \in requests :
        /\ inflight[w].pc = "idle"
        /\ LET st == CancelCheck(bookings, r)
           IN  inflight' = [inflight EXCEPT ![w] =
                   IF st # 0 THEN Done("cancelBooking", r, st, "check")
                   ELSE Doing("cancelWrite", "cancelBooking", r)]
        /\ UNCHANGED <<timeSlots, bookings, nextSlotId, nextBookingId, res, reminderVars>>

\* PATCH /api/bookings/:id/cancel: Booking.findByIdAndDelete
CancelWriteStep ==
    \E w \in Workers :
        /\ inflight[w].pc = "cancelWrite"
        /\ LET out == CancelWrite(bookings, inflight[w].r)
           IN  /\ bookings' = out.store
               /\ inflight' = [inflight EXCEPT ![w] =
                      Done("cancelBooking", inflight[w].r, out.status, "write")]
        /\ UNCHANGED <<timeSlots, nextSlotId, nextBookingId, res, reminderVars>>

\* PATCH /api/bookings/:id/status: one findByIdAndUpdate
StatusStep(requests) ==
    \E w \in Workers, r \in requests :
        /\ inflight[w].pc = "idle"
        /\ LET out == PatchStatus(bookings, r)
           IN  /\ bookings' = out.store
               /\ inflight' = [inflight EXCEPT ![w] =
                      Done("updateBookingStatus", r, out.status, "write")]
        /\ UNCHANGED <<timeSlots, nextSlotId, nextBookingId, res, reminderVars>>

\* the answer has been sent: the worker takes the next request
NextRequest ==
    \E w \in Workers :
        /\ inflight[w].pc = "done"
        /\ inflight' = [inflight EXCEPT ![w] = Idle]
        /\ UNCHANGED <<timeSlots, bookings, nextSlotId, nextBookingId, res, reminderVars>>

\* bookings of two users at nine o'clock on Monday
RaceBooks ==
    {r \in BookPosts : r.date = Monday /\ r.startTime = t9_00}

RaceCancels == {r \in Cancels : r.user \in {"u1", "a1"}}

NextBookConc ==
    \/ BookCheckStep(RaceBooks)
    \/ BookWriteStep
    \/ CancelCheckStep(RaceCancels)
    \/ CancelWriteStep
    \/ StatusStep(AdminStatusPatches)
    \/ NextRequest

\* createBooking, cancelBooking and the status update, interleaved
SpecBookConc == Init /\ [][NextBookConc]_vars

NextCreateRace ==
    \/ BookCheckStep(BookPosts \cup BookPostsRefused)
    \/ BookWriteStep

\* one createBooking request per worker, all in flight together, on a store
\* without bookings
SpecCreateRace == Init /\ [][NextCreateRace]_vars

\* POST .../slots: authentication, validation and checkSlotOverlap
SlotPostCheckStep(requests) ==
    \E w \in Workers, r \in requests :
        /\ inflight[w].pc = "idle"
        /\ nextSlotId + Inserting("slotWrite") <= MaxSlotId
        /\ LET st == PostSlotCheck(timeSlots, r)
           IN  inflight' = [inflight EXCEPT ![w] =
                   IF st # 0 THEN Done("createCustomSlot", r, st, "check")
                   ELSE Doing("slotWrite", "createCustomSlot", r)]
        /\ UNCHANGED <<timeSlots, bookings, nextSlotId, nextBookingId, res, reminderVars>>

\* POST .../slots: TimeSlot.create and the answer
SlotPostWriteStep ==
    \E w \in Workers :
        /\ inflight[w].pc = "slotWrite"
        /\ LET out == PostSlotWrite(timeSlots, nextSlotId, inflight[w].r)
           IN  /\ timeSlots' = out.store
               /\ nextSlotId' =
                      IF out.status = 201 THEN nextSlotId + 1 ELSE nextSlotId
               /\ inflight' = [inflight EXCEPT ![w] =
                      Done("createCustomSlot", inflight[w].r, out.status, "write")]
        /\ UNCHANGED <<bookings, nextBookingId, res, reminderVars>>

\* PUT .../slots/:slotId: authentication, TimeSlot.findOne and validation
SlotPutFindStep(requests) ==
    \E w \in Workers, r \in requests :
        /\ inflight[w].pc = "idle"
        /\ LET found == FindSlot(timeSlots, r)
               existingSlot == CHOOSE s \in found : TRUE
               st == IF requireAdmin(r.user) # 0 THEN requireAdmin(r.user)
                     ELSE IF found = {} THEN 404
                     ELSE PutSlotValidate(existingSlot, r)
           IN  inflight' = [inflight EXCEPT ![w] =
                   IF st # 0 THEN Done("updateCustomSlot", r, st, "check")
                   ELSE [pc |-> "putOverlap", op |-> "updateCustomSlot",
                         r |-> r, existingSlot |-> existingSlot]]
        /\ UNCHANGED <<timeSlots, bookings, nextSlotId, nextBookingId, res, reminderVars>>

\* PUT .../slots/:slotId: checkSlotOverlap
SlotPutOverlapStep ==
    \E w \in Workers :
        /\ inflight[w].pc = "putOverlap"
        /\ inflight' = [inflight EXCEPT ![w] =
               IF PutSlotOverlap(timeSlots, inflight[w].existingSlot, inflight[w].r)
               THEN Done("updateCustomSlot", inflight[w].r, 409, "check")
               ELSE [inflight[w] EXCEPT !.pc = "putBooked"]]
        /\ UNCHANGED <<timeSlots, bookings, nextSlotId, nextBookingId, res, reminderVars>>

\* PUT .../slots/:slotId: Booking.findOne
SlotPutBookedStep ==
    \E w \in Workers :
        /\ inflight[w].pc = "putBooked"
        /\ inflight' = [inflight EXCEPT ![w] =
               IF PutSlotBooked(bookings, inflight[w].existingSlot, inflight[w].r)
               THEN Done("updateCustomSlot", inflight[w].r, 409, "check")
               ELSE [inflight[w] EXCEPT !.pc = "putSave"]]
        /\ UNCHANGED <<timeSlots, bookings, nextSlotId, nextBookingId, res, reminderVars>>

\* PUT .../slots/:slotId: existingSlot.save() and the answer
SlotPutSaveStep ==
    \E w \in Workers :
        /\ inflight[w].pc = "putSave"
        /\ LET out == PutSlotSave(timeSlots, inflight[w].existingSlot, inflight[w].r)
           IN  /\ timeSlots' = out.store
               /\ inflight' = [inflight EXCEPT ![w] =
                      Done("updateCustomSlot", inflight[w].r, out.status, "write")]
        /\ UNCHANGED <<bookings, nextSlotId, nextBookingId, res, reminderVars>>

\* custom slots within the hour from nine on Monday
RaceSlotPosts ==
    {r \in SlotPosts : r.date = Monday /\ r.startTime \in {t9_00, t09_30}
                       /\ r.endTime \in {t09_30, t10_00}}

\* moves of a slot's start
RaceSlotPuts ==
    {r \in SlotPuts : r.date = NoDate /\ r.startTime # Empty /\ r.endTime = Empty}

NextSlotConc ==
    \/ SlotPostCheckStep(RaceSlotPosts)
    \/ SlotPostWriteStep
    \/ SlotPutFindStep(RaceSlotPuts)
    \/ SlotPutOverlapStep
    \/ SlotPutBookedStep
    \/ SlotPutSaveStep
    \/ NextRequest

\* createCustomSlot and updateCustomSlot, interleaved
SpecSlotConc == Init /\ [][NextSlotConc]_vars

\* DELETE .../slots/:slotId: authentication and TimeSlot.findOne
SlotDeleteFindStep(requests) ==
    \E w \in Workers, r \in requests :
        /\ inflight[w].pc = "idle"
        /\ LET found == FindSlot(timeSlots, r)
               st == IF requireAdmin(r.user) # 0 THEN requireAdmin(r.user)
                     ELSE IF found = {} THEN 404 ELSE 0
           IN  inflight' = [inflight EXCEPT ![w] =
                   IF st # 0 THEN Done("deleteCustomSlot", r, st, "check")
                   ELSE [pc |-> "deleteBooked", op |-> "deleteCustomSlot",
                         r |-> r, existingSlot |-> CHOOSE x \in found : TRUE]]
        /\ UNCHANGED <<timeSlots, bookings, nextSlotId, nextBookingId, res, reminderVars>>

\* DELETE .../slots/:slotId: Booking.findOne
SlotDeleteBookedStep ==
    \E w \in Workers :
        /\ inflight[w].pc = "deleteBooked"
        /\ inflight' = [inflight EXCEPT ![w] =
               IF ActiveBookingAt(bookings, inflight[w].r.venueId,
                                  inflight[w].r.spaceId,
                                  inflight[w].existingSlot.date,
                                  inflight[w].existingSlot.startTime)
               THEN Done("deleteCustomSlot", inflight[w].r, 409, "check")
               ELSE [inflight[w] EXCEPT !.pc = "deleteWrite"]]
        /\ UNCHANGED <<timeSlots, bookings, nextSlotId, nextBookingId, res, reminderVars>>

\* DELETE .../slots/:slotId: TimeSlot.deleteOne and the answer
SlotDeleteWriteStep ==
    \E w \in Workers :
        /\ inflight[w].pc = "deleteWrite"
        /\ timeSlots' = {x \in timeSlots : x._id # inflight[w].r.slotId}
        /\ inflight' = [inflight EXCEPT ![w] =
               Done("deleteCustomSlot", inflight[w].r, 200, "write")]
        /\ UNCHANGED <<bookings, nextSlotId, nextBookingId, res, reminderVars>>

\* the custom slot from nine to ten on Monday is in the store, created by an
\* earlier createCustomSlot
InitSlotListed ==
    /\ timeSlots = {NewTimeSlot(1, "v1", "s1", Monday, t9_00, t10_00,
                                DefaultPrice, TRUE)}
    /\ bookings = {}
    /\ nextSlotId = 2
    /\ nextBookingId = 1
    /\ res = [op |-> "createCustomSlot", status |-> 201, created |-> 0,
              skipped |-> 0]
    /\ inflight = [w \in Workers |-> Idle]
    /\ sentReminders = {}
    /\ dispatched = <<>>
    /\ clock = 0

\* the deletion of that slot and the move of its start to half past nine
RaceSlotDeletes == {r \in SlotDeletes : r.slotId = 1}
RaceSlotMoves == {r \in RaceSlotPuts : r.slotId = 1 /\ r.startTime = t09_30}

NextBookSlotRace ==
    \/ BookCheckStep(RaceBooks)
    \/ BookWriteStep
    \/ SlotDeleteFindStep(RaceSlotDeletes)
    \/ SlotDeleteBookedStep
    \/ SlotDeleteWriteStep
    \/ SlotPutFindStep(RaceSlotMoves)
    \/ SlotPutOverlapStep
    \/ SlotPutBookedStep
    \/ SlotPutSaveStep
    \/ NextRequest

\* createBooking interleaved with the deletion or the move of the slot at
\* its key
SpecBookSlotRace == InitSlotListed /\ [][NextBookSlotRace]_vars

-----------------------------------------------------------------------------
(* The availability listing *)

\* operatingHours of a weekday the venue is closed on: null
NoHours == [closed |-> TRUE]

\* the rank of a character in the collation of localeCompare: punctuation
\* before digits, digits in order
CharRank(c) ==
    IF c = ":" THEN 0 ELSE IF c \in Digits THEN DigitVal(c) + 1 ELSE 11

\* a.localeCompare(b) on time strings: -1, 0 or 1
localeCompare(a, b) ==
    LET common == IF Len(a) < Len(b) THEN Len(a) ELSE Len(b)
        diffs == {i \in 1..common : a[i] # b[i]}
    IN  IF diffs # {}
        THEN IF \E i \in diffs : /\ \A j \in diffs : i <= j
                                  /\ CharRank(a[i]) < CharRank(b[i])
             THEN 0 - 1 ELSE 1
        ELSE IF Len(a) < Len(b) THEN 0 - 1
        ELSE IF Len(a) > Len(b) THEN 1 ELSE 0

\* the comparator of allSlots.sort: by date, then by startTime.  Dates are
\* ISO strings of one length, which localeCompare orders as the calendar does
compareSlots(a, b) ==
    IF a.date # b.date
    THEN (IF DateIndex(a.date) < DateIndex(b.date) THEN 0 - 1 ELSE 1)
    ELSE localeCompare(a.startTime, b.startTime)

\* Array.prototype.sort with compareSlots: a stable sort.  The element at
\* index i moves behind the elements that compare smaller and the equal ones
\* that precede it
sortSlots(seq) ==
    LET before(i) == {j \in 1..Len(seq) :
                         \/ compareSlots(seq[j], seq[i]) < 0
                         \/ compareSlots(seq[j], seq[i]) = 0 /\ j < i}
    IN  [k \in 1..Len(seq) |->
            seq[CHOOSE i \in 1..Len(seq) : Cardinality(before(i)) = k - 1]]

\* the documents of a query, in the order of their insertion
InOrder(docs) ==
    [k \in 1..Cardinality(docs) |->
        CHOOSE d \in docs : Cardinality({x \in docs : x._id < d._id}) = k - 1]

\* BookingsFor matching on the date alone
BookingsForAnyTime(existingBookings, date, startTime) ==
    {b \in existingBookings : b.date = date /\ b.status # "cancelled"}

\* existingBookings.find(b => b.date === date && b.startTime === startTime
\* && b.status !== "cancelled"): the bookings that match
BookingsFor(existingBookings, date, startTime) ==
    {b \in existingBookings :
        b.date = date /\ b.startTime = startTime /\ b.status # "cancelled"}

\* the entry of a listing: available, bookedBy and bookingId from the booking
\* found, if any
ListedSlot(id, date, startTime, endTime, price, isCustom, found) ==
    [id |-> id, date |-> date, startTime |-> startTime, endTime |-> endTime,
     available |-> (found = {}), price |-> price, isCustom |-> isCustom,
     bookedBy |-> IF found = {} THEN NoUser
                  ELSE (CHOOSE b \in found : TRUE).userId,
     bookingId |-> IF found = {} THEN 0 ELSE (CHOOSE b \in found : TRUE)._id]

\* hasCustomOverlap for the custom slots that begin within the hour only
hasCustomOverlapStart(customSlots, date, hour) ==
    \E cs \in customSlots :
        /\ cs.date = date
        /\ NumLe(hour * 60, toMinutes(cs.startTime))
        /\ NumLt(toMinutes(cs.startTime), (hour + 1) * 60)

\* customSlots.some(cs => cs.date === date && csStart < autoEnd &&
\* csEnd > autoStart)
hasCustomOverlap(customSlots, date, hour) ==
    \E cs \in customSlots :
        /\ cs.date = date
        /\ NumLt(toMinutes(cs.startTime), (hour + 1) * 60)
        /\ NumLt(hour * 60, toMinutes(cs.endTime))

\* generateTimeSlots: the hourly slots of a date from its operating hours,
\* without the hours a custom slot overlaps
generateTimeSlots(date, operatingHours, existingBookings, customSlots) ==
    IF operatingHours = NoHours THEN <<>>
    ELSE CHOOSE slots \in
             {[k \in 1..Len(kept) |->
                  ListedSlot(<<date, HourLabel(kept[k])>>, date,
                             HourLabel(kept[k]), HourLabel(kept[k] + 1),
                             DefaultPrice, FALSE,
                             BookingsFor(existingBookings, date,
                                         HourLabel(kept[k])))] :
               kept \in {SelectSeq(hours,
                                   LAMBDA h : ~hasCustomOverlap(customSlots, date, h)) :
                            hours \in {HoursOf(operatingHours)}}} : TRUE

\* the dates of GET .../timeslots: a range, one date, or the 14 days from today
QueryDates(q) ==
    IF q.startDate # NoDate /\ q.endDate # NoDate
    THEN DateRange(q.startDate, q.endDate)
    ELSE IF q.date # NoDate THEN <<q.date>>
    ELSE DateRange(NoDate, NoDate)

\* the slots of one date of the loop: the generated ones, then the stored
\* ones of the date, each with its booking
SlotsOfDate(dateStr, existingBookings, customSlots) ==
    LET hours == IF dayName(dateStr) \in DOMAIN venueOperatingHours
                 THEN venueOperatingHours[dayName(dateStr)] ELSE NoHours
        customSlotsForDate == {cs \in customSlots : cs.date = dateStr}
        stored == InOrder(customSlotsForDate)
    IN  generateTimeSlots(dateStr, hours, existingBookings, customSlotsForDate)
        \o [k \in 1..Len(stored) |->
               ListedSlot(stored[k]._id, stored[k].date, stored[k].startTime,
                          stored[k].endTime, stored[k].price, TRUE,
                          BookingsFor(existingBookings, dateStr,
                                      stored[k].startTime))]

RECURSIVE SlotsOfDates(_, _, _)
SlotsOfDates(dates, existingBookings, customSlots) ==
    IF dates = <<>> THEN <<>>
    ELSE SlotsOfDate(Head(dates), existingBookings, customSlots)
         \o SlotsOfDates(Tail(dates), existingBookings, customSlots)

\* GET /api/venues/:venueId/spaces/:spaceId/timeslots
GetTimeSlots(slots, bks, q) ==
    IF q.venueId \notin Venues \/ q.spaceId \notin venueSubVenues
    THEN [status |-> 404, slots |-> <<>>]
    ELSE CHOOSE out \in
             {[status |-> 200, slots |-> sortSlots(allSlots)] :
               allSlots \in
                 {SlotsOfDates(dates,
                      {b \in bks : /\ b.venueId = q.venueId
                                   /\ b.spaceId = q.spaceId
                                   /\ \E i \in 1..Len(dates) : dates[i] = b.date
                                   /\ b.status # "cancelled"},
                      {s \in slots : /\ s.venueId = q.venueId
                                     /\ s.spaceId = q.spaceId
                                     /\ \E i \in 1..Len(dates) : dates[i] = s.date
                                     /\ s.isActive}) :
                    dates \in {QueryDates(q)}}} : TRUE

\* the queries of the listing
Queries ==
    {[venueId |-> v, spaceId |-> sp, date |-> d, startDate |-> sd, endDate |-> sd] :
        v \in VenueIds, sp \in SpaceIds, d \in {NoDate, Monday},
        sd \in {NoDate, Monday}}

\* the stores that the listing reads, filled by custom slots, generation,
\* bookings of two users, cancellations and status changes
ListingBooks == {r \in BookPosts : r.date = Monday}

NextListing ==
    \/ CreateCustomSlot(MondayPosts)
    \/ BulkGenerateSlots(MondayGenerates)
    \/ CreateBooking(ListingBooks)
    \/ CancelBooking(OwnerOrAdminCancels)
    \/ UpdateBookingStatus(AdminStatusPatches)

SpecListing == Init /\ [][NextListing]_vars

-----------------------------------------------------------------------------
(* generateTimeSlots on its own: the inputs are drawn at the start, the one
   step applies the function *)

t09_30pm == <<"9", ":", "3", "0", " ", "P", "M">>
t11_59pm == <<"1", "1", ":", "5", "9", " ", "P", "M">>
t12_00am == <<"1", "2", ":", "0", "0", " ", "A", "M">>
t12_30pm == <<"1", "2", ":", "3", "0", "p", "m">>
t1_00pm == <<"1", ":", "0", "0", " ", "P", "M">>
t5_30pm == <<"5", ":", "3", "0", " ", "P", "M">>
t10_15 == <<"1", "0", ":", "1", "5">>
t12_45 == <<"1", "2", ":", "4", "5">>
t17_00 == <<"1", "7", ":", "0", "0">>

\* operating hours as venues store them, in 24-hour and in AM/PM notation,
\* each with the hour and minute of the day that its strings denote
HoursCases ==
    {[hours |-> [open |-> t09_30, close |-> t17_00],
      openHour |-> 9, openMinute |-> 30, closeHour |-> 17],
     [hours |-> [open |-> t09_00, close |-> t11_00],
      openHour |-> 9, openMinute |-> 0, closeHour |-> 11],
     [hours |-> venueOperatingHours["monday"],
      openHour |-> 9, openMinute |-> 0, closeHour |-> 11],
     [hours |-> [open |-> t10_15, close |-> t12_45],
      openHour |-> 10, openMinute |-> 15, closeHour |-> 12],
     [hours |-> [open |-> t1_00pm, close |-> t5_30pm],
      openHour |-> 13, openMinute |-> 0, closeHour |-> 17],
     [hours |-> [open |-> t12_00am, close |-> t12_30pm],
      openHour |-> 0, openMinute |-> 0, closeHour |-> 12],
     [hours |-> [open |-> t09_30pm, close |-> t11_59pm],
      openHour |-> 21, openMinute |-> 30, closeHour |-> 23],
     [hours |-> [open |-> t17_00, close |-> t09_30],
      openHour |-> 17, openMinute |-> 0, closeHour |-> 9]}

\* stored slots handed over as customSlots: within an hour, a whole hour, the
\* start of an hour under the unpadded spelling, and one of another date
GeneratorSlots ==
    {NewTimeSlot(1, "v1", "s1", Monday, t09_30, t10_00, DefaultPrice, TRUE),
     NewTimeSlot(2, "v1", "s1", Monday, t10_00, t11_00, DefaultPrice, TRUE),
     NewTimeSlot(3, "v1", "s1", Monday, t9_00, t09_30, DefaultPrice, TRUE),
     NewTimeSlot(4, "v1", "s1", Tuesday, t9_00, t11_00, DefaultPrice, TRUE)}

GeneratorBookings ==
    {[_id |-> 1, venueId |-> "v1", spaceId |-> "s1", date |-> Monday,
      startTime |-> t10_00, endTime |-> t11_00, userId |-> "u1",
      status |-> "pending"],
     [_id |-> 2, venueId |-> "v1", spaceId |-> "s1", date |-> Monday,
      startTime |-> t09_00, endTime |-> t10_00, userId |-> "u2",
      status |-> "cancelled"]}

InitGenerator ==
    /\ timeSlots \in SUBSET GeneratorSlots
    /\ bookings \in SUBSET GeneratorBookings
    /\ nextSlotId = 1
    /\ nextBookingId = 1
    /\ \E date \in Dates, hours \in {c.hours : c \in HoursCases} \cup {NoHours} :
           res = [op |-> "none", status |-> 0, created |-> 0, skipped |-> 0,
                  date |-> date, hours |-> hours, slots |-> <<>>]
    /\ inflight = [w \in Workers |-> [pc |-> "idle"]]
    /\ sentReminders = {}
    /\ dispatched = <<>>
    /\ clock = 0

GenerateTimeSlots ==
    /\ res.op = "none"
    /\ \E slots \in {generateTimeSlots(res.date, res.hours, bookings, timeSlots)} :
           res' = [res EXCEPT !.op = "generateTimeSlots", !.slots = slots]
    /\ UNCHANGED <<timeSlots, bookings, nextSlotId, nextBookingId, inflight, reminderVars>>

SpecGenerator == InitGenerator /\ [][GenerateTimeSlots]_vars

-----------------------------------------------------------------------------
(* parseTimeString on its own: the input is drawn at the start, the one step
   applies the function *)

\* the spellings of the AM/PM marker
MarkerTexts ==
    {[marker |-> "AM", text |-> <<" ", "A", "M">>],
     [marker |-> "AM", text |-> <<"a", "m">>],
     [marker |-> "PM", text |-> <<" ", "P", "M">>],
     [marker |-> "PM", text |-> <<"p", "m">>],
     [marker |-> "none", text |-> <<>>]}

\* hour:minute with the hour padded to two digits or not, and a marker
TimeText(hour, minute, padded, markerText) ==
    (IF padded THEN padStart2(toString(hour)) ELSE toString(hour))
    \o <<":">> \o padStart2(toString(minute)) \o markerText

\* the inputs with an hour of the 12-hour clock under each marker, and the
\* unmarked inputs of the 24-hour clock
ClockInputs ==
    {[text |-> TimeText(h, m, padded, mt.text), hour |-> h, minute |-> m,
      marker |-> mt.marker] :
        h \in 1..12, m \in 0..59, padded \in BOOLEAN, mt \in MarkerTexts}
    \cup
    {[text |-> TimeText(h, m, padded, <<>>), hour |-> h, minute |-> m,
      marker |-> "none"] :
        h \in 0..23, m \in 0..59, padded \in BOOLEAN}

\* inputs without a marker and without a pair of numbers around a colon
Unparsable ==
    {[text |-> t, hour |-> NaN, minute |-> NaN, marker |-> "unparsable"] :
        t \in {<<>>, <<"9">>, <<"x">>, <<"n", "o", "o", "n">>,
               <<"9", ":", "x", "x">>, <<":", "3", "0">>, <<"9", ".", "3", "0">>}}

InitParse ==
    /\ timeSlots = {}
    /\ bookings = {}
    /\ nextSlotId = 1
    /\ nextBookingId = 1
    /\ \E input \in (ClockInputs \cup Unparsable) :
           res = [op |-> "none", status |-> 0, created |-> 0, skipped |-> 0,
                  input |-> input, time |-> [hour |-> NaN, minute |-> NaN]]
    /\ inflight = [w \in Workers |-> [pc |-> "idle"]]
    /\ sentReminders = {}
    /\ dispatched = <<>>
    /\ clock = 0

ParseTimeString ==
    /\ res.op = "none"
    /\ \E time \in {parseTimeString(res.input.text)} :
           res' = [res EXCEPT !.op = "parseTimeString", !.time = time]
    /\ UNCHANGED <<timeSlots, bookings, nextSlotId, nextBookingId, inflight, reminderVars>>

SpecParse == InitParse /\ [][ParseTimeString]_vars

-----------------------------------------------------------------------------
(* The event reminder scheduler.  Time is counted in ticks of the timer (15
   minutes); an invocation of checkAndSendEventReminders is a sweep, and the
   sweeps in progress are the workers.  A sweep runs without interruption
   from one await to the next: Event.find(), and the dispatch of a
   notification. *)

MaxClock == 4

\* 60 * 60 * 1000 and 2 * 60 * 60 * 1000 milliseconds, in ticks
OneHour == 4
TwoHours == 8

\* the Events collection: the start of each event in ticks after the start
\* of the process, and the number of players on its roster with a userId
dbEvents ==
    [e \in {"e1", "e2", "e3"} |->
        CASE e = "e1" -> [time |-> 6, players |-> 2]
          [] e = "e2" -> [time |-> 7, players |-> 1]
          [] e = "e3" -> [time |-> 6, players |-> 0]]

\* Event.find(): the events in the order of the collection
EventOrder == <<"e1", "e2", "e3">>

\* sentReminders.add(reminderKey) once the dispatch is settled
SweepAfterSend(sent, e) == sent \cup {e}

\* eventDateTime > oneHourFromNow && eventDateTime <= twoHoursFromNow, and a
\* roster with players
Due(e, now) ==
    /\ dbEvents[e].time > now + OneHour
    /\ dbEvents[e].time <= now + TwoHours
    /\ dbEvents[e].players > 0

\* the loop from its current event on, up to the next dispatch: the events
\* left, beginning with the one to dispatch; none if the loop ends
RECURSIVE RunLoop(_, _, _)
RunLoop(todo, sent, now) ==
    IF todo = <<>> THEN <<>>
    ELSE IF Head(todo) \in sent THEN RunLoop(Tail(todo), sent, now)
    ELSE IF Due(Head(todo), now) THEN todo
    ELSE RunLoop(Tail(todo), sent, now)

\* the position of a sweep that goes on with the events todo
Sweeping(todo, now) ==
    IF todo = <<>> THEN Idle
    ELSE [pc |-> "sweepSend", todo |-> todo, now |-> now]

\* the dispatches that a sweep entering position pos adds to the log
Dispatching(pos) ==
    IF pos.pc = "sweepSend" THEN <<Head(pos.todo)>> ELSE <<>>

\* the scheduler starts: checkAndSendEventReminders runs at once, up to its
\* await of Event.find()
InitReminder ==
    /\ timeSlots = {}
    /\ bookings = {}
    /\ nextSlotId = 1
    /\ nextBookingId = 1
    /\ res = [op |-> "none", status |-> 0, created |-> 0, skipped |-> 0]
    /\ inflight = [w \in Workers |->
                      IF w = 1 THEN [pc |-> "sweepFind", now |-> 0] ELSE Idle]
    /\ sentReminders = {}
    /\ dispatched = <<>>
    /\ clock = 0

\* the timer fires: a sweep starts and runs up to its await of Event.find()
TimerTick ==
    /\ clock < MaxClock
    /\ clock' = clock + 1
    /\ IF \E w \in Workers : inflight[w] = Idle
       THEN \E w \in Workers :
                /\ inflight[w] = Idle
                /\ \A v \in Workers : inflight[v] = Idle => w <= v
                /\ inflight' = [inflight EXCEPT
                                   ![w] = [pc |-> "sweepFind", now |-> clock + 1]]
       ELSE UNCHANGED inflight
    /\ UNCHANGED <<timeSlots, bookings, nextSlotId, nextBookingId, res,
                   sentReminders, dispatched>>

\* Event.find() resolves: the loop runs up to its first dispatch
SweepFindStep ==
    \E w \in Workers :
        /\ inflight[w].pc = "sweepFind"
        /\ \E pos \in {Sweeping(RunLoop(EventOrder, sentReminders, inflight[w].now),
                                inflight[w].now)} :
               /\ inflight' = [inflight EXCEPT ![w] = pos]
               /\ dispatched' = dispatched \o Dispatching(pos)
        /\ UNCHANGED <<timeSlots, bookings, nextSlotId, nextBookingId, res,
                       sentReminders, clock>>

\* the dispatch is settled: the key is added and the loop runs on, up to its
\* next dispatch
SweepSendStep ==
    \E w \in Workers :
        /\ inflight[w].pc = "sweepSend"
        /\ \E sent \in {SweepAfterSend(sentReminders, Head(inflight[w].todo))} :
               \E pos \in {Sweeping(RunLoop(Tail(inflight[w].todo), sent,
                                            inflight[w].now),
                                    inflight[w].now)} :
                   /\ sentReminders' = sent
                   /\ inflight' = [inflight EXCEPT ![w] = pos]
                   /\ dispatched' = dispatched \o Dispatching(pos)
        /\ UNCHANGED <<timeSlots, bookings, nextSlotId, nextBookingId, res, clock>>

NextReminder == TimerTick \/ SweepFindStep \/ SweepSendStep

SpecReminder == InitReminder /\ [][NextReminder]_vars

-----------------------------------------------------------------------------
(* Claims on the booking handlers, under SpecBook *)

IsAdmin(user) == user \in DOMAIN dbUsers /\ dbUsers[user].isAdmin

\* the non-cancelled bookings at a key
OccupantsOf(bks, key) ==
    {b \in bks : BookingKey(b) = key /\ b.status \in {"pending", "confirmed"}}

RequestKey(r) == <<r.venueId, r.spaceId, r.date, r.startTime>>

\* C7: createBooking by an authenticated user on an existing venue and space
\* answers 409 and leaves the bookings unchanged if a non-cancelled booking
\* exists at the key, and otherwise adds exactly one booking, with status
\* pending.
C7_CreateBookingAdmission ==
    \A r \in BookPosts :
        LET out == PostBook(bookings, nextBookingId, r)
        IN  IF OccupantsOf(bookings, RequestKey(r)) # {}
            THEN out.status = 409 /\ out.store = bookings
            ELSE /\ out.status = 201
                 /\ \E b \in out.store \ bookings :
                        /\ out.store = bookings \cup {b}
                        /\ b.status = "pending"
                        /\ BookingKey(b) = RequestKey(r)

\* C8: cancelBooking answers 401 without a principal, 404 for a booking that
\* does not exist, 403 (booking unchanged) unless the requester owns the
\* booking or is an administrator, and otherwise removes the booking record.
C8_CancelAuthorization ==
    \A r \in Cancels :
        LET out == PatchCancel(bookings, r)
            found == {b \in bookings : b._id = r.id}
        IN  IF r.user = NoUser THEN out.status = 401 /\ out.store = bookings
            ELSE IF found = {} THEN out.status = 404 /\ out.store = bookings
            ELSE \A b \in found :
                    IF b.userId = r.user \/ IsAdmin(r.user)
                    THEN out.status = 200 /\ out.store = bookings \ {b}
                    ELSE out.status = 403 /\ out.store = bookings

\* a cancellation by someone who neither owns the booking nor is an
\* administrator has been refused
C8_Witness ==
    /\ res.op = "cancelBooking" /\ res.status = 403
    /\ \E b \in bookings : b.status # "cancelled"

\* C9: a successful cancelBooking frees the key: in the state it leaves, and
\* as long as no booking is created at that key, createBooking for the key by
\* any authenticated user answers 201.
C9_CancelFreesSlot ==
    [][(res'.op = "cancelBooking" /\ res'.status = 200) =>
          \A b \in bookings \ bookings' :
              \A r \in BookPosts :
                  RequestKey(r) = BookingKey(b)
                      => PostBook(bookings', nextBookingId', r).status = 201]_vars

\* a booking has been cancelled and its record is gone
C9_Witness ==
    /\ res.op = "cancelBooking" /\ res.status = 200
    /\ bookings = {} /\ nextBookingId = 2

-----------------------------------------------------------------------------
(* Claims on the slot handlers *)

\* half-open intervals [s1, e1) and [s2, e2) of minutes overlap
Overlap(s1, e1, s2, e2) == s1 < e2 /\ e1 > s2

SlotsOverlap(a, b) ==
    /\ a.venueId = b.venueId /\ a.spaceId = b.spaceId /\ a.date = b.date
    /\ Overlap(toMinutes(a.startTime), toMinutes(a.endTime),
               toMinutes(b.startTime), toMinutes(b.endTime))

NoOverlapAmong(slots) ==
    \A a \in slots : \A b \in slots : a._id # b._id => ~SlotsOverlap(a, b)

ActiveCustom(store) == {s \in store : s.isCustom /\ s.isActive}

\* C2: after any sequence of createCustomSlot, updateCustomSlot and
\* deleteCustomSlot requests served one after another, no two active custom
\* slots of the same venue, space and date overlap, and a create or update
\* that would make two of them overlap is answered 409 and changes nothing.
C2_NoOverlapSequential ==
    /\ NoOverlapAmong(ActiveCustom(timeSlots))
    /\ \A r \in SlotPosts :
           (/\ toMinutes(r.startTime) < toMinutes(r.endTime)
            /\ \E s \in ActiveCustom(timeSlots) :
                   SlotsOverlap(s, r))
           => LET out == PostSlot(timeSlots, nextSlotId, r)
              IN  out.status = 409 /\ out.store = timeSlots
    /\ \A r \in SlotPuts : \A e \in FindSlot(timeSlots, r) :
           LET new == PutSlotNew(e, r)
               moved == [e EXCEPT !.date = new.date,
                                  !.startTime = new.startTime,
                                  !.endTime = new.endTime]
           IN  (/\ toMinutes(new.startTime) < toMinutes(new.endTime)
                /\ \E s \in ActiveCustom(timeSlots) :
                       s._id # e._id /\ SlotsOverlap(s, moved))
               => LET out == PutSlot(timeSlots, bookings, r)
                  IN  out.status = 409 /\ out.store = timeSlots

\* an overlapping custom slot has been refused while custom slots exist
C2_Witness ==
    /\ res.op \in {"createCustomSlot", "updateCustomSlot"}
    /\ res.status = 409
    /\ Cardinality(ActiveCustom(timeSlots)) >= 2

\* C4: after any sequence of slot requests that includes bulkGenerateSlots,
\* no two active TimeSlot records of the same venue, space and date overlap,
\* custom or generated.
C4_NoOverlapWithGenerated ==
    NoOverlapAmong({s \in timeSlots : s.isActive})

\* C10: deleteCustomSlot by an administrator on a slot whose key is occupied
\* by a non-cancelled booking answers 409 and the slot stays; on a slot whose
\* key no non-cancelled booking occupies (none was made, or it has been
\* cancelled) it answers 200 and removes the slot.
C10_DeleteBlockedByBooking ==
    \A r \in SlotDeletes : \A e \in FindSlot(timeSlots, r) :
        LET out == DeleteSlot(timeSlots, bookings, r)
        IN  IF OccupantsOf(bookings, SlotKey(e)) # {}
            THEN out.status = 409 /\ out.store = timeSlots
            ELSE out.status = 200 /\ out.store = timeSlots \ {e}

\* the deletion of a booked slot has been refused
C10_Witness ==
    /\ res.op = "deleteCustomSlot" /\ res.status = 409
    /\ \E e \in timeSlots : e.isCustom /\ OccupantsOf(bookings, SlotKey(e)) # {}

-----------------------------------------------------------------------------
(* Claims on requests served concurrently *)

\* C1: in every state reached by interleaving the steps of createBooking,
\* cancelBooking and status-update requests, each key holds at most one
\* non-cancelled booking.
C1_SingleOccupancy ==
    \A a \in bookings : \A b \in bookings :
        (/\ BookingKey(a) = BookingKey(b)
         /\ a.status # "cancelled" /\ b.status # "cancelled") => a = b

\* a createBooking passed its pre-check and was refused by the insert, and
\* the key holds a non-cancelled booking
C1_Witness ==
    \E w \in Workers :
        /\ inflight[w].pc = "done" /\ inflight[w].op = "createBooking"
        /\ inflight[w].status = 409 /\ inflight[w].at = "write"
        /\ Cardinality(OccupantsOf(bookings, RequestKey(inflight[w].r))) = 1

\* the workers that have answered a well-formed createBooking for a key
AnsweredAt(key) ==
    {w \in Workers : /\ inflight[w].pc = "done"
                     /\ inflight[w].r \in BookPosts
                     /\ RequestKey(inflight[w].r) = key}

\* C5: of the concurrent createBooking requests for one key of an empty
\* store, exactly one is answered 201 and every other one 409, never 500.
C5_ExactlyOneWins ==
    \A r \in BookPosts :
        LET answered == AnsweredAt(RequestKey(r))
        IN  /\ \A w \in answered : inflight[w].status \in {201, 409}
            /\ answered # {} =>
                   Cardinality({w \in answered : inflight[w].status = 201}) = 1

\* every worker has answered a request for the same key: one 201, and the
\* others 409, one of them refused by the insert after passing the pre-check
C5_Witness ==
    \E r \in BookPosts :
        /\ AnsweredAt(RequestKey(r)) = Workers
        /\ \E w \in Workers :
               inflight[w].status = 409 /\ inflight[w].at = "write"
        /\ Cardinality({w \in Workers : inflight[w].status = 201}) = 1

\* C3: when the check and write steps of createCustomSlot and
\* updateCustomSlot requests interleave, no two active custom slots of the
\* same venue, space and date overlap.
C3_NoOverlapConcurrent ==
    \A a \in ActiveCustom(timeSlots) : \A b \in ActiveCustom(timeSlots) :
        a._id # b._id => ~SlotsOverlap(a, b)

\* C6: a createCustomSlot or updateCustomSlot that passed its checks and had
\* its write refused by the unique index is answered 409, not 500.
C6_LoserGetsConflict ==
    \A w \in Workers :
        (/\ inflight[w].pc = "done"
         /\ inflight[w].op \in {"createCustomSlot", "updateCustomSlot"}
         /\ inflight[w].at = "write")
        => inflight[w].status \in {200, 201, 409}

-----------------------------------------------------------------------------
(* Claims on the update of a booked slot *)

\* the updates the claims below put to the handler: moves of the date, the
\* start or the end, and the price-only edit
BookedSlotPuts == SlotPuts \cup MondayPuts

\* the update changes the slot's date, start or end
ChangesTime(e, r) ==
    \/ PutSlotNew(e, r).date # e.date
    \/ PutSlotNew(e, r).startTime # e.startTime
    \/ PutSlotNew(e, r).endTime # e.endTime

\* the slot with the price of the request, if it carries one
Repriced(e, r) == [e EXCEPT !.price = IF r.price # Undefined THEN r.price ELSE @]

\* what C11 says of the update r of the booked slot e
BookedUpdateOutcome(e, r) ==
    LET out == PutSlot(timeSlots, bookings, r)
    IN  IF ChangesTime(e, r)
        THEN out.status = 409 /\ out.store = timeSlots
        ELSE out.status = 200
             /\ out.store = (timeSlots \ {e}) \cup {Repriced(e, r)}

\* the given times are well formed and the resulting end is after the start
WellFormedUpdate(e, r) ==
    /\ r.startTime # Empty => timeRegex(r.startTime)
    /\ r.endTime # Empty => timeRegex(r.endTime)
    /\ toMinutes(PutSlotNew(e, r).startTime) < toMinutes(PutSlotNew(e, r).endTime)

\* the resulting interval overlaps another active slot of the space
OverlapsAnother(e, r) ==
    \E s \in timeSlots :
        /\ s._id # e._id /\ s.isActive
        /\ s.venueId = e.venueId /\ s.spaceId = e.spaceId
        /\ s.date = PutSlotNew(e, r).date
        /\ Overlap(toMinutes(PutSlotNew(e, r).startTime),
                   toMinutes(PutSlotNew(e, r).endTime),
                   toMinutes(s.startTime), toMinutes(s.endTime))

-----------------------------------------------------------------------------
(* Claims on the admission decision *)

\* the candidate interval overlaps one of the slots, the slot numbered except
\* left out
OverlapsOneOf(slots, venueId, spaceId, date, startTime, endTime, except) ==
    \E s \in slots :
        /\ s._id # except
        /\ s.venueId = venueId /\ s.spaceId = spaceId /\ s.date = date
        /\ Overlap(toMinutes(startTime), toMinutes(endTime),
                   toMinutes(s.startTime), toMinutes(s.endTime))

\* a well-formed create is answered 409 exactly when it overlaps one of the
\* slots, and a well-formed update likewise, the updated slot left out
DecidesAgainst(slots) ==
    /\ \A r \in SlotPosts :
           (/\ timeRegex(r.startTime) /\ timeRegex(r.endTime)
            /\ toMinutes(r.startTime) < toMinutes(r.endTime))
           => LET out == PostSlot(timeSlots, nextSlotId, r)
              IN  IF OverlapsOneOf(slots, r.venueId, r.spaceId, r.date,
                                   r.startTime, r.endTime, 0)
                  THEN out.status = 409 /\ out.store = timeSlots
                  ELSE out.status = 201
    /\ \A r \in SlotPuts : \A e \in FindSlot(timeSlots, r) :
           WellFormedUpdate(e, r)
           => LET out == PutSlot(timeSlots, bookings, r)
                  new == PutSlotNew(e, r)
              IN  IF OverlapsOneOf(slots, r.venueId, r.spaceId, new.date,
                                   new.startTime, new.endTime, e._id)
                  THEN out.status = 409 /\ out.store = timeSlots
                  ELSE out.status = 200

\* C12 as stated: a well-formed createCustomSlot on an existing venue and
\* space is answered 409 exactly when its interval overlaps (s1 < e2 and
\* e1 > s2) an active custom slot of the same venue, space and date, and is
\* otherwise admitted; a well-formed updateCustomSlot decides likewise,
\* leaving the updated slot out.
C12_AdmissionDecision == DecidesAgainst(ActiveCustom(timeSlots))

\* C12, with the slots the code compares against: the decision is taken
\* against every active slot of the venue, space and date, custom or
\* generated; touching intervals are admitted.
C12_AdmissionDecisionAnyKind == DecidesAgainst({s \in timeSlots : s.isActive})

\* a custom slot has been admitted that touches another slot's endpoint
C12_Witness ==
    /\ res.op = "createCustomSlot" /\ res.status = 201
    /\ \E a \in timeSlots : \E b \in ActiveCustom(timeSlots) :
           /\ a.date = b.date
           /\ toMinutes(a.endTime) = toMinutes(b.startTime)

-----------------------------------------------------------------------------
(* Claims on bulk generation *)

\* generation requests with and without a price, among them a price that is
\* no number
PricedGenerates ==
    {[r EXCEPT !.price = p] : r \in SlotGenerates, p \in {Undefined, 200, BadPrice}}

\* the keys of the candidates of r, in the order of the loops
CandidateKeys(r) ==
    LET cands == Candidates(DateRange(r.startDate, r.endDate))
    IN  [i \in 1..Len(cands) |->
            <<r.venueId, r.spaceId, cands[i].date, HourLabel(cands[i].hour)>>]

\* what C13 says of the generation request r
PartialSuccess(r) ==
    LET out == GenerateSlots(timeSlots, nextSlotId, r)
        keys == CandidateKeys(r)
        taken == {SlotKey(s) : s \in timeSlots}
        free == {i \in 1..Len(keys) : keys[i] \notin taken}
        new == out.store \ timeSlots
    IN  /\ out.status = 201
        /\ timeSlots \subseteq out.store
        /\ \A d \in new : ~d.isCustom /\ d.isActive
        /\ {SlotKey(d) : d \in new} = {keys[i] : i \in free}
        /\ Cardinality(new) = Cardinality(free)
        /\ Cardinality(out.docs) = Cardinality(free)
        /\ out.skipped = Len(keys) - Cardinality(free)
        /\ Cardinality(out.docs) + out.skipped = Len(keys)

\* C13: bulkGenerateSlots answers 201; every candidate whose key is free is
\* persisted with isCustom false and counted in created, every candidate
\* whose key is taken leaves the existing slot unchanged and is counted in
\* skipped, and created + skipped is the number of candidates.
C13_PartialSuccess == \A r \in PricedGenerates : PartialSuccess(r)

-----------------------------------------------------------------------------
(* Claims on the availability listing, under SpecListing *)

\* the listings of the space of the model
SpaceQueries == {q \in Queries : q.venueId = "v1" /\ q.spaceId = "s1"}

\* an entry of a listing tells the occupancy of its key
TellsOccupancy(q, e) ==
    LET occ == OccupantsOf(bookings, <<q.venueId, q.spaceId, e.date, e.startTime>>)
    IN  /\ e.available <=> occ = {}
        /\ occ = {} => e.bookedBy = NoUser /\ e.bookingId = 0
        /\ occ # {} => \E b \in occ : e.bookedBy = b.userId /\ e.bookingId = b._id

\* two listings that differ at most in the entries of one key
SameExceptAt(before, after, date, startTime) ==
    /\ Len(before) = Len(after)
    /\ \A i \in 1..Len(before) :
           \/ before[i] = after[i]
           \/ /\ before[i].date = date /\ before[i].startTime = startTime
              /\ after[i] = [before[i] EXCEPT !.available = after[i].available,
                                              !.bookedBy = after[i].bookedBy,
                                              !.bookingId = after[i].bookingId]

\* C14: every entry of a listing, generated or stored, has available = false
\* exactly when a non-cancelled booking exists at its venue, space, date and
\* startTime, and then carries that booking's user and id; a booking that is
\* accepted changes no entry of the listing but those of its key.
C14_AvailabilityOccupancy ==
    \A q \in SpaceQueries :
        \E out \in {GetTimeSlots(timeSlots, bookings, q)} :
            /\ out.status = 200
            /\ \A i \in 1..Len(out.slots) : TellsOccupancy(q, out.slots[i])
            /\ \A r \in ListingBooks :
                   \E booked \in {PostBook(bookings, nextBookingId, r)} :
                       booked.status = 201 =>
                           SameExceptAt(out.slots,
                                        GetTimeSlots(timeSlots, booked.store, q).slots,
                                        r.date, r.startTime)

\* a listing with a booked slot next to a free one, after a booking
C14_Witness ==
    /\ res.op = "createBooking" /\ res.status = 201
    /\ \E q \in SpaceQueries :
           \E out \in {GetTimeSlots(timeSlots, bookings, q)} :
               \E i, j \in 1..Len(out.slots) :
                   /\ ~out.slots[i].available /\ out.slots[i].bookedBy = "u1"
                   /\ out.slots[j].available

-----------------------------------------------------------------------------
(* Claims on generateTimeSlots, under SpecGenerator *)

\* the hours h with effectiveOpen <= h < closeHour of a case of HoursCases
ExpectedHours(c) ==
    {h \in 0..23 :
        /\ c.openHour + (IF c.openMinute > 0 THEN 1 ELSE 0) <= h
        /\ h < c.closeHour}

\* the entries of the output that are the slot of hour h: 60 minutes from h:00
EntriesOfHour(slots, date, h) ==
    {i \in 1..Len(slots) : /\ slots[i].date = date
                           /\ ParseMinutes(slots[i].startTime) = h * 60
                           /\ ParseMinutes(slots[i].endTime) = (h + 1) * 60}

\* a custom slot of the date whose interval intersects [h*60, (h+1)*60)
IntersectsHour(customSlots, date, h) ==
    \E cs \in customSlots :
        /\ cs.date = date
        /\ ParseMinutes(cs.startTime) < (h + 1) * 60
        /\ ParseMinutes(cs.endTime) > h * 60

\* C15: without custom slots on the date, the generator returns exactly one
\* 60-minute slot for each hour h with effectiveOpen <= h < closeHour, where
\* effectiveOpen is the opening hour, plus one if the opening time has
\* minutes, and closeHour is the hour of the closing time; without operating
\* hours it returns nothing.
C15_GeneratedHours ==
    (res.op = "generateTimeSlots" /\ {cs \in timeSlots : cs.date = res.date} = {})
    => /\ res.hours = NoHours => res.slots = <<>>
       /\ \A c \in HoursCases :
              c.hours = res.hours =>
                  /\ Len(res.slots) = Cardinality(ExpectedHours(c))
                  /\ \A h \in ExpectedHours(c) :
                         Cardinality(EntriesOfHour(res.slots, res.date, h)) = 1

\* 09:30-17:00 gives the seven slots of the hours 10 to 16
C15_Witness ==
    /\ res.op = "generateTimeSlots"
    /\ {cs \in timeSlots : cs.date = res.date} = {}
    /\ res.hours = [open |-> t09_30, close |-> t17_00]
    /\ Len(res.slots) = 7
    /\ res.slots[1].startTime = t10_00

\* C16: an hour that a custom slot of the date intersects is not in the
\* generator's output, and the other hours of the operating range are.
C16_CustomPrecedence ==
    res.op = "generateTimeSlots" =>
        \A c \in HoursCases :
            c.hours = res.hours =>
                \A h \in 0..23 :
                    Cardinality(EntriesOfHour(res.slots, res.date, h)) =
                        IF h \in ExpectedHours(c)
                           /\ ~IntersectsHour(timeSlots, res.date, h)
                        THEN 1 ELSE 0

\* a custom slot 09:30-10:00 removes the hour 9 and leaves the hour 10
C16_Witness ==
    /\ res.op = "generateTimeSlots"
    /\ res.date = Monday
    /\ {cs.startTime : cs \in {x \in timeSlots : x.date = Monday}} = {t09_30}
    /\ res.hours = [open |-> t09_00, close |-> t11_00]
    /\ Len(res.slots) = 1
    /\ res.slots[1].startTime = t10_00

-----------------------------------------------------------------------------
(* Claims on the order of the listing, under Spec *)

\* the entries follow each other by date and then by startTime, as strings
InStringOrder(slots) ==
    \A i, j \in 1..Len(slots) : i < j => compareSlots(slots[i], slots[j]) <= 0

\* of two entries of one date, the one listed first starts no later in the day
InDayOrder(slots) ==
    \A i, j \in 1..Len(slots) :
        (i < j /\ slots[i].date = slots[j].date)
        => ParseMinutes(slots[i].startTime) <= ParseMinutes(slots[j].startTime)

ListingInStringOrder ==
    \A q \in SpaceQueries : InStringOrder(GetTimeSlots(timeSlots, bookings, q).slots)

\* C17: the listing is sorted by (date, startTime) and this order is
\* chronological: of two slots of one date, the one listed first does not
\* start later in the day than the one listed after it.
C17_ChronologicalListing ==
    \A q \in SpaceQueries :
        \E out \in {GetTimeSlots(timeSlots, bookings, q)} :
            InStringOrder(out.slots) /\ InDayOrder(out.slots)

-----------------------------------------------------------------------------
(* Claims on the admin gate, under SpecGate *)

\* the answer of the gate to a principal who is no administrator: 401 without
\* an authenticated principal (no token, or no user on record for the token),
\* 403 for a user who is not an administrator
GateAnswer(user) == IF user \in DOMAIN dbUsers THEN 403 ELSE 401

SlotOps == {"createCustomSlot", "updateCustomSlot", "deleteCustomSlot",
            "bulkGenerateSlots"}

\* every slot request of a principal who is no administrator gets the gate's
\* answer and writes nothing
GateRefuses ==
    \A user \in Principals \ {"a1"} :
        /\ \A r \in SentBy(MondayPosts) :
               r.user = user =>
                   \E out \in {PostSlot(timeSlots, nextSlotId, r)} :
                       out.status = GateAnswer(user) /\ out.store = timeSlots
        /\ \A r \in SentBy(MondayPuts) :
               r.user = user =>
                   \E out \in {PutSlot(timeSlots, bookings, r)} :
                       out.status = GateAnswer(user) /\ out.store = timeSlots
        /\ \A r \in SentBy(SlotDeletes) :
               r.user = user =>
                   \E out \in {DeleteSlot(timeSlots, bookings, r)} :
                       out.status = GateAnswer(user) /\ out.store = timeSlots
        /\ \A r \in SentBy(MondayGenerates) :
               r.user = user =>
                   \E out \in {GenerateSlots(timeSlots, nextSlotId, r)} :
                       out.status = GateAnswer(user) /\ out.store = timeSlots

\* a step of a slot route that answers 401 or 403 changes neither store
RefusalKeepsStores ==
    (res'.op \in SlotOps /\ res'.status \in {401, 403})
    => UNCHANGED <<timeSlots, bookings>>

\* C18: createCustomSlot, updateCustomSlot, deleteCustomSlot and
\* bulkGenerateSlots answer 401 without an authenticated principal and 403 to
\* an authenticated user who is no administrator, and in both cases leave the
\* TimeSlot and Booking stores unchanged.
C18_AdminGate == [](GateRefuses) /\ [][RefusalKeepsStores]_vars

\* a user's request for generation was refused while slots and a booking exist
C18_Witness ==
    /\ res.op = "bulkGenerateSlots" /\ res.status = 403
    /\ timeSlots # {} /\ bookings # {}

-----------------------------------------------------------------------------
(* Claims on the validation of createCustomSlot, under SpecCustom *)

\* the administrator's requests: well-formed and malformed times, in either
\* order, without a price, with a number and with a string that is no number
ValidatedPosts ==
    [user : {"a1"}, venueId : {"v1"}, spaceId : {"s1"}, date : {Monday},
     startTime : SlotTimes \cup {t24_00, Empty},
     endTime : SlotTimes \cup {t24_00, Empty},
     price : {Undefined, 200, BadPrice}]

\* a time that is no well-formed HH:MM value, or an end not after the start
FailsValidation(r) ==
    \/ ~MatchTimeRegex(r.startTime)
    \/ ~MatchTimeRegex(r.endTime)
    \/ ParseMinutes(r.endTime) <= ParseMinutes(r.startTime)

\* the outcome that the validation rule prescribes for request r
ValidationOutcome(r) ==
    \E out \in {PostSlot(timeSlots, nextSlotId, r)} :
        IF FailsValidation(r)
        THEN out.status = 400 /\ out.store = timeSlots
        ELSE IF checkSlotOverlap(timeSlots, r.venueId, r.spaceId, r.date,
                                 r.startTime, r.endTime, 0)
        THEN out.store = timeSlots
        ELSE /\ out.status = 201
             /\ \E d \in out.store \ timeSlots :
                    /\ out.store = timeSlots \cup {d}
                    /\ d.isCustom /\ d.isActive
                    /\ d.date = r.date
                    /\ d.startTime = r.startTime /\ d.endTime = r.endTime

-----------------------------------------------------------------------------
(* Claims on the status of a booking, under SpecBook *)

\* the changes of status that the lifecycle allows
AllowedChange(from, to) ==
    \/ from = to
    \/ from = "pending" /\ to = "confirmed"
    \/ to = "cancelled"

\* a step changes the status of the bookings it keeps only as allowed
LifecycleStep ==
    \A b \in bookings :
        \A c \in bookings' :
            c._id = b._id => AllowedChange(b.status, c.status)

\* C20: the status of a booking changes only from pending to confirmed or
\* from any status to cancelled; a cancelled booking never becomes pending or
\* confirmed again, and a confirmed booking never returns to pending.
C20_StatusLifecycle == [][LifecycleStep]_vars

-----------------------------------------------------------------------------
(* Claims on the slot that a booking is made against, under SpecListing *)

\* the listing of the date of a booking request, for its venue and space
ListingFor(bks, venueId, spaceId, date) ==
    GetTimeSlots(timeSlots, bks,
                 [venueId |-> venueId, spaceId |-> spaceId, date |-> date,
                  startDate |-> NoDate, endDate |-> NoDate]).slots

\* a listed slot with the date, startTime and endTime given
ListedAs(slots, date, startTime, endTime) ==
    {i \in 1..Len(slots) : /\ slots[i].date = date
                           /\ slots[i].startTime = startTime
                           /\ slots[i].endTime = endTime}

\* C21: createBooking succeeds only if its date, startTime and endTime are
\* those of a slot that the listing shows as available, so every stored
\* non-cancelled booking has the interval of a listed slot at its key.
C21_BookedAgainstOpenSlot ==
    /\ \A r \in ListingBooks :
           \E out \in {PostBook(bookings, nextBookingId, r)} :
               out.status = 201 =>
                   \E slots \in {ListingFor(bookings, r.venueId, r.spaceId, r.date)} :
                       \E i \in ListedAs(slots, r.date, r.startTime, r.endTime) :
                           slots[i].available
    /\ \A b \in bookings :
           b.status # "cancelled" =>
               \E slots \in {ListingFor(bookings, b.venueId, b.spaceId, b.date)} :
                   ListedAs(slots, b.date, b.startTime, b.endTime) # {}

-----------------------------------------------------------------------------
(* Claims on the key of the booking conflict check, under SpecBook *)

\* the intervals of a booking and of a request intersect
BookingOverlapsRequest(b, r) ==
    /\ ParseMinutes(r.startTime) < ParseMinutes(b.endTime)
    /\ ParseMinutes(b.startTime) < ParseMinutes(r.endTime)

\* the non-cancelled bookings of the venue, space and date of request r that
\* start at another startTime
StartingElsewhere(bks, r) ==
    {b \in bks : /\ b.venueId = r.venueId /\ b.spaceId = r.spaceId
                 /\ b.date = r.date
                 /\ b.status # "cancelled"
                 /\ b.startTime # r.startTime}

\* C22: the conflict check of createBooking is keyed on the startTime: a
\* non-cancelled booking of the same venue, space and date with another
\* startTime does not stand against a request, whether or not the two
\* intervals overlap; the request is answered as without that booking, and
\* with 201 if no booking holds its own key.
C22_ConflictKeyedOnStart ==
    \A r \in BookPosts :
        \A b \in StartingElsewhere(bookings, r) :
            /\ PostBook(bookings, nextBookingId, r).status
                   = PostBook(bookings \ {b}, nextBookingId, r).status
            /\ {x \in bookings : BookingKey(x) = RequestKey(r)} = {}
                   => PostBook(bookings, nextBookingId, r).status = 201

\* a booking was accepted beside a non-cancelled one that it overlaps
C22_Witness ==
    /\ res.op = "createBooking" /\ res.status = 201
    /\ \E b, c \in bookings :
           /\ b._id # c._id
           /\ b.status # "cancelled" /\ c.status # "cancelled"
           /\ b.venueId = c.venueId /\ b.spaceId = c.spaceId /\ b.date = c.date
           /\ BookingOverlapsRequest(b, c)

-----------------------------------------------------------------------------
(* Claims on parseTimeString, under SpecParse *)

\* the hour of the day that an hour of the clock denotes under a marker
HourOfDay(hour, marker) ==
    IF marker = "AM" THEN (IF hour = 12 THEN 0 ELSE hour)
    ELSE IF marker = "PM" THEN (IF hour = 12 THEN 12 ELSE hour + 12)
    ELSE hour

\* C23: parseTimeString yields hour 0 for 12 AM, 12 for 12 PM, the hour plus
\* 12 for 1 to 11 PM, and the hour unchanged for 1 to 11 AM and for unmarked
\* input, with the minute preserved; the result lies in 0..23 and 0..59.
C23_MarkerConversion ==
    (res.op = "parseTimeString" /\ res.input.marker \in {"AM", "PM", "none"})
    => /\ res.time.hour = HourOfDay(res.input.hour, res.input.marker)
       /\ res.time.minute = res.input.minute
       /\ res.time.hour \in 0..23
       /\ res.time.minute \in 0..59

\* "12:30pm" was parsed to 12:30
C23_Witness ==
    /\ res.op = "parseTimeString"
    /\ res.input.text = <<"1", "2", ":", "3", "0", "p", "m">>
    /\ res.time = [hour |-> 12, minute |-> 30]

\* the outcome of a parser that fails
ParseError == [error |-> "ParseError"]

\* C24: for an input without AM/PM marker and without a colon-separated pair
\* of numbers the parser fails with a ParseError and returns no time, and no
\* slots are generated from such an opening or closing time.
C24_ParseFailure ==
    (res.op = "parseTimeString" /\ res.input.marker = "unparsable")
    => /\ res.time = ParseError
       /\ generateTimeSlots(Monday, [open |-> res.input.text, close |-> t11_00],
                            {}, {}) = <<>>
       /\ generateTimeSlots(Monday, [open |-> t09_00, close |-> res.input.text],
                            {}, {}) = <<>>

-----------------------------------------------------------------------------
(* Claims on the reminders, under SpecReminder *)

\* the number of times the reminder of event e was dispatched
TimesDispatched(e) ==
    Cardinality({i \in 1..Len(dispatched) : dispatched[i] = e})

\* C25: over any sequence of sweeps, overlapping ones included, the reminder
\* of an event is dispatched at most once.
C25_ReminderAtMostOnce ==
    \A e \in DOMAIN dbEvents : TimesDispatched(e) <= 1

-----------------------------------------------------------------------------
(* Claims on booking a slot that is listed as available, under SpecListing *)

\* the booking request of a user for an entry of a listing
RequestFor(user, q, e) ==
    [user |-> user, venueId |-> q.venueId, spaceId |-> q.spaceId,
     date |-> e.date, startTime |-> e.startTime, endTime |-> e.endTime,
     eventName |-> "game"]

\* C26: if the listing shows a slot as available, createBooking by a user on
\* record for that slot's venue, space, date and startTime, served next, is
\* answered 201.
C26_ListedAvailableIsBookable ==
    \A q \in SpaceQueries :
        \E out \in {GetTimeSlots(timeSlots, bookings, q)} :
            \A i \in 1..Len(out.slots) :
                out.slots[i].available =>
                    \A user \in DOMAIN dbUsers :
                        PostBook(bookings, nextBookingId,
                                 RequestFor(user, q, out.slots[i])).status = 201

-----------------------------------------------------------------------------
(* Claims on slots with a booking under concurrency, under SpecBookSlotRace *)

\* a step keeps every slot that has a non-cancelled booking at its key, with
\* its key
BookedSlotsStay ==
    \A x \in timeSlots :
        ActiveBookingAt(bookings, x.venueId, x.spaceId, x.date, x.startTime)
        => \E y \in timeSlots' : y._id = x._id /\ SlotKey(y) = SlotKey(x)

\* C27: in no interleaving of createBooking with deleteCustomSlot or with a
\* time-changing updateCustomSlot is a slot deleted or moved away while a
\* non-cancelled booking holds its key.
C27_BookedSlotStaysConcurrent == [][BookedSlotsStay]_vars

-----------------------------------------------------------------------------
(* Claims on the listing after slot requests, under SpecSlots *)

\* no two entries of the listing of one date have intervals that overlap, and
\* no two have the same date and startTime
OverlapFree(listed) ==
    \A i, j \in 1..Len(listed) :
        (i # j /\ listed[i].date = listed[j].date)
        => /\ ~Overlap(toMinutes(listed[i].startTime), toMinutes(listed[i].endTime),
                       toMinutes(listed[j].startTime), toMinutes(listed[j].endTime))
           /\ listed[i].startTime # listed[j].startTime

\* C28: in every state reached by createCustomSlot, updateCustomSlot,
\* deleteCustomSlot and bulkGenerateSlots, no listing holds two slots of one
\* date whose [startTime, endTime) intervals overlap, and no two listed slots
\* have the same date and startTime.
C28_ListingOverlapFree ==
    \A q \in SpaceQueries :
        \E out \in {GetTimeSlots(timeSlots, bookings, q)} : OverlapFree(out.slots)

-----------------------------------------------------------------------------
(* Claims on occupancy by time of day, under SpecBook *)

\* C29: in every reachable state no two non-cancelled bookings of one venue,
\* space and date start at the same minute of the day: createBooking stores no
\* startTime that denotes the time of a standing booking under another
\* spelling, such as 9:00 beside 09:00.
C29_SingleOccupancyByMinute ==
    \A b1, b2 \in bookings :
        (/\ b1._id # b2._id
         /\ b1.status # "cancelled" /\ b2.status # "cancelled"
         /\ b1.venueId = b2.venueId /\ b1.spaceId = b2.spaceId
         /\ b1.date = b2.date)
        => toMinutes(b1.startTime) # toMinutes(b2.startTime)

-----------------------------------------------------------------------------
(* Claims on running bulk generation twice, under SpecBulk *)

\* custom slots of Monday, generation with and without a price, deletions
NextBulk ==
    \/ CreateCustomSlot(MondayPosts)
    \/ BulkGenerateSlots(PricedGenerates)
    \/ DeleteCustomSlot(SlotDeletes)

SpecBulk == Init /\ [][NextBulk]_vars

\* the second of two runs of r in a row leaves the store of the first,
\* creates nothing and skips what the first created or skipped
SecondRunSkipsAll(first, second) ==
    /\ second.store = first.store
    /\ second.status = first.status
    /\ Cardinality(second.docs) = 0
    /\ second.skipped = Cardinality(first.docs) + first.skipped

\* C30: bulkGenerateSlots run twice in a row with the same venue, space,
\* dates and price leaves the TimeSlot store as after the first run; the
\* second run reports created = 0 and skipped = the first run's created +
\* skipped.
C30_GenerateIdempotent ==
    \A r \in PricedGenerates :
        \E first \in {GenerateSlots(timeSlots, nextSlotId, r)} :
            SecondRunSkipsAll(first, GenerateSlots(first.store, first.nextId, r))

\* a run has created nothing and skipped the generated slots in store, at
\* least two
C30_Witness ==
    /\ res.op = "bulkGenerateSlots" /\ res.status = 201
    /\ res.created = 0
    /\ res.skipped >= 2
    /\ res.skipped = Cardinality({s \in timeSlots : ~s.isCustom})


=============================================================================
